---- MODULE Spec2Model ----
(***************************************************************************)
(* Rep detection engine and workout progression of the Progo backend       *)
(* (Progo-BE/app/ml/rep_detection.py, Progo-BE/app/ml/workout_manager.py,   *)
(* Progo-BE/app/routers/workouts.py, Progo-BE/app/routers/sensor_data.py).  *)
(*                                                                         *)
(* Units.  Time is counted in deciseconds (0.1 s), so 1.0 s is 10.         *)
(* Acceleration magnitude is counted in 0.1 m/s^2, so 8.0 m/s^2 is 80.     *)
(* A classifier confidence is counted in 0.01, so 0.8 is 80.  A candidate  *)
(* confidence or motion quality is counted in 0.0005, so 0.9 is 1800: the  *)
(* mean of the 20 tracked confidences is then the plain sum of them.       *)
(* A sample is represented by its acceleration magnitude, the only part of *)
(* it the phase decisions read.  datetime.now() is the variable now; the   *)
(* reads of the clock made within one call return the same value.          *)
(***************************************************************************)
EXTENDS Integers, Sequences, FiniteSets, TLC

VARIABLES
    now,              \* the wall clock, datetime.now()
    sessions,         \* table workout_sessions: id -> WorkoutSession row
    rep_events,       \* table rep_events, in insertion order
    rep_patterns,     \* table rep_patterns: <<device, exercise>> -> row
    active_workouts,  \* WorkoutManager.active_workouts: device -> session id
    rep_engines,      \* WorkoutManager.rep_engines: device -> RepDetectionEngine
    session_stats,    \* WorkoutManager.session_stats: session id -> stats
    sink,             \* notifications pushed to the websocket manager, in order
    last,             \* the last call made and its outcome
    readings,         \* table sensor_readings: number of rows per device
    phase_trace,      \* history: phases the analyzer under test went through
    fired,            \* history: motion-cycle candidates fired by detect_rep_cycle
    gen,              \* the synthetic signal generator feeding the analyzer
    inference_engine, \* the process-wide RealTimeInference object
    threads,          \* calls of its methods in flight: caller -> position
    websocket_manager, \* the ConnectionManager: connections and queues
    websockets        \* the texts each WebSocket was sent, in order

vars == <<now, sessions, rep_events, rep_patterns, active_workouts, rep_engines,
          session_stats, sink, last, readings, phase_trace, fired, gen,
          inference_engine, threads, websocket_manager, websockets>>

dbVars == <<sessions, rep_events, rep_patterns, readings>>
mgrVars == <<active_workouts, rep_engines, session_stats>>
histVars == <<phase_trace, fired, gen>>
infVars == <<inference_engine, threads>>
wsVars == <<websocket_manager, websockets>>

-----------------------------------------------------------------------------
(* Bounds of the model *)

MaxTime == 60
MaxSessions == 2
MaxSets == 2
MaxReps == 3
MaxMotionSamples == 27
MaxReadings == 1
MaxCalls == 32
MaxStreamed == 2
MaxPredictions == 22
MaxPredictionSwitches == 1
MaxPushed == 502
MaxOtherPushed == 2
SmallBufferSize == 2
MaxOverlapPushed == 2
MaxArtifacts == 2
MaxBuffered == 11
MaxLoads == 2
MaxPredictCalls == 2
MaxWindow == 40
MaxHandled == 6
MaxInactiveCalls == 3
MaxListed == 26

Devices == {"d1", "d2"}
Exercises == {"bicep_curl"}

-----------------------------------------------------------------------------
(* Program constants *)

window_size == 50
RecentCount == 10
rest_threshold == 15
motion_threshold == 30
peak_threshold == 80
min_phase_duration == 3
PeakMinAge == 1
PeakMaxAge == 50

conf_window_size == 50
high_confidence_threshold == 80
stability_window == 10

default_min_rep_duration == 10
default_max_rep_duration == 80
default_min_rest_time == 5

MotionCompleteAge == 10
HybridConfidence == 1800
MotionCycleConfidence == 1400
DefaultMlConfidence == 1200
DefaultMotionQuality == 1600

-----------------------------------------------------------------------------
(* Helpers *)

NoTime == 0 - 1
NoPattern == [kind |-> "none"]
NoCandidate == [kind |-> "none"]
NoCycle == [kind |-> "none"]
NoPrediction == [kind |-> "none"]

Max(a, b) == IF a >= b THEN a ELSE b
Min(a, b) == IF a <= b THEN a ELSE b

RECURSIVE SumSeq(_)
SumSeq(s) == IF s = <<>> THEN 0 ELSE Head(s) + SumSeq(Tail(s))

LastN(s, n) == IF Len(s) <= n THEN s ELSE SubSeq(s, Len(s) - n + 1, Len(s))

\* deque(maxlen=n).append(x)
DequeAppend(s, x, n) == LastN(Append(s, x), n)

\* dict operations on functions with a variable domain
DictSet(f, k, v) == [x \in (DOMAIN f) \cup {k} |-> IF x = k THEN v ELSE f[x]]
\* a faulty variant: the key stays
DictDel_KeepsKey(f, k) == f

DictDel(f, k) == [x \in (DOMAIN f) \ {k} |-> f[x]]

-----------------------------------------------------------------------------
(* MotionCycleAnalyzer *)

MotionCycleAnalyzer(t) ==
    [motion_buffer |-> <<>>,
     current_phase |-> "rest",
     phase_start_time |-> t,
     last_peak_time |-> NoTime]

\* sum of the acceleration magnitudes of the 10 most recent points; the mean
\* avg_accel is this sum / 10, so avg_accel > x is RecentSum > 10 * x
RecentSum(a) == SumSeq(LastN(a.motion_buffer, RecentCount))

\* a faulty variant: up_motion turns into peak at the motion threshold
NewPhase_PeakAtMotionThreshold(a, current_time) ==
    LET sum == SumSeq(LastN(a.motion_buffer, RecentCount))
        phase_duration == current_time - a.phase_start_time
    IN  CASE a.current_phase = "rest" ->
                IF sum > RecentCount * motion_threshold
                   /\ phase_duration > min_phase_duration
                THEN "up_motion" ELSE "none"
          [] a.current_phase = "up_motion" ->
                IF sum > RecentCount * motion_threshold THEN "peak"
                ELSE IF sum < RecentCount * rest_threshold
                        /\ phase_duration > min_phase_duration
                     THEN "rest" ELSE "none"
          [] a.current_phase = "peak" ->
                IF sum < RecentCount * motion_threshold
                   /\ phase_duration > PeakMinAge
                THEN "down_motion" ELSE "none"
          [] a.current_phase = "down_motion" ->
                IF sum < RecentCount * rest_threshold
                   /\ phase_duration > min_phase_duration
                THEN "rest" ELSE "none"
          [] OTHER -> "none"

\* the new_phase chosen by the state machine, "none" for None
NewPhase(a, current_time) ==
    LET sum == RecentSum(a)
        phase_duration == current_time - a.phase_start_time
    IN  CASE a.current_phase = "rest" ->
                IF sum > RecentCount * motion_threshold
                   /\ phase_duration > min_phase_duration
                THEN "up_motion" ELSE "none"
          [] a.current_phase = "up_motion" ->
                IF sum > RecentCount * peak_threshold THEN "peak"
                ELSE IF sum < RecentCount * rest_threshold
                        /\ phase_duration > min_phase_duration
                     THEN "rest" ELSE "none"
          [] a.current_phase = "peak" ->
                IF sum < RecentCount * motion_threshold
                   /\ phase_duration > PeakMinAge
                THEN "down_motion" ELSE "none"
          [] a.current_phase = "down_motion" ->
                IF sum < RecentCount * rest_threshold
                   /\ phase_duration > min_phase_duration
                THEN "rest" ELSE "none"
          [] OTHER -> "none"

\* the analyzer after _analyze_motion_phase(current_time)
AnalyzeMotionPhase(a, current_time) ==
    IF Len(a.motion_buffer) < RecentCount THEN a
    ELSE LET new_phase == NewPhase(a, current_time)
         IN  IF new_phase # "none" /\ new_phase # a.current_phase
             THEN [a EXCEPT !.current_phase = new_phase,
                            !.phase_start_time = current_time,
                            !.last_peak_time =
                                IF new_phase = "peak" THEN current_time ELSE @]
             ELSE a

\* the analyzer after add_sensor_data(sample, timestamp)
AddSensorData(a, accel_mag, timestamp) ==
    AnalyzeMotionPhase(
        [a EXCEPT !.motion_buffer = DequeAppend(@, accel_mag, window_size)],
        timestamp)

\* what add_sensor_data returns: the phase after the update, "none" for None
ReturnedPhase(a) ==
    IF Len(a.motion_buffer) < RecentCount THEN "none" ELSE a.current_phase

\* a faulty variant: a rep is returned before the buffer holds a full window
CycleDetected_ColdBuffer(a, t) ==
    /\ a.current_phase = "rest"
    /\ a.last_peak_time # NoTime
    /\ t - a.last_peak_time < PeakMaxAge

\* whether detect_rep_cycle() returns a rep at clock t
CycleDetected(a, t) ==
    /\ Len(a.motion_buffer) >= window_size
    /\ a.current_phase = "rest"
    /\ a.last_peak_time # NoTime
    /\ t - a.last_peak_time < PeakMaxAge

\* detect_rep_cycle() leaving the recorded peak in place
DetectRepCycle_KeepsPeak(a, t) == a

\* the analyzer after detect_rep_cycle() at clock t
DetectRepCycle(a, t) ==
    IF CycleDetected(a, t) THEN [a EXCEPT !.last_peak_time = NoTime] ELSE a

-----------------------------------------------------------------------------
(* MLConfidenceTracker *)

MLConfidenceTracker == [confidence_buffer |-> <<>>]

\* add_prediction(prediction, confidence, timestamp)
AddPrediction(tr, prediction, confidence) ==
    [tr EXCEPT !.confidence_buffer =
        DequeAppend(@, [prediction |-> prediction, confidence |-> confidence],
                    conf_window_size)]

ConfSum(half) == SumSeq([i \in 1..Len(half) |-> half[i].confidence])
Labels(half) == {half[i].prediction : i \in 1..Len(half)}

\* a faulty variant: one stable window of high confidence is enough
DetectConfidenceCycle_OneWindow(tr) ==
    IF Len(tr.confidence_buffer) < stability_window THEN NoCycle
    ELSE LET recent_data == LastN(tr.confidence_buffer, stability_window)
         IN  IF ConfSum(recent_data) > stability_window * high_confidence_threshold
             THEN [kind |-> "cycle", has_avg |-> TRUE,
                   avg_confidence |-> 2 * ConfSum(recent_data)]
             ELSE NoCycle

\* detect_confidence_cycle(): NoCycle for None, else the dict returned;
\* avg_confidence = (first_avg_conf + second_avg_conf) / 2, in 0.0005
DetectConfidenceCycle(tr) ==
    IF Len(tr.confidence_buffer) < stability_window * 2 THEN NoCycle
    ELSE LET recent_data == LastN(tr.confidence_buffer, stability_window * 2)
             first_half == SubSeq(recent_data, 1, stability_window)
             second_half == SubSeq(recent_data, stability_window + 1,
                                   stability_window * 2)
             first_stable == Cardinality(Labels(first_half)) <= 2
             second_stable == Cardinality(Labels(second_half)) <= 2
         IN  IF /\ ConfSum(first_half) > stability_window * high_confidence_threshold
                /\ ConfSum(second_half) > stability_window * high_confidence_threshold
                /\ first_stable /\ second_stable
             THEN [kind |-> "cycle", has_avg |-> TRUE,
                   avg_confidence |-> ConfSum(first_half) + ConfSum(second_half)]
             ELSE NoCycle

-----------------------------------------------------------------------------
(* PersonalizedTimingValidator *)

PersonalizedTimingValidator == [rep_pattern |-> NoPattern, last_rep_time |-> NoTime]

\* load_rep_pattern(db): the stored row for (device, exercise), if any
LoadRepPattern(v, patterns, device_id, exercise_type) ==
    IF patterns[<<device_id, exercise_type>>] # NoPattern
    THEN [v EXCEPT !.rep_pattern = patterns[<<device_id, exercise_type>>]]
    ELSE v

\* a faulty variant: the rest check always uses the default minimum rest
RestCheckPasses_DefaultOnly(v, c) ==
    IF v.last_rep_time # NoTime
    THEN ~(c.end_time - v.last_rep_time < default_min_rest_time)
    ELSE TRUE

\* the rest check of validate_rep_timing: FALSE when the candidate is rejected
\* as too soon after the last rep.  0.5 * avg_rest is compared doubled.
RestCheckPasses(v, c) ==
    IF v.last_rep_time # NoTime
    THEN LET time_since_last_rep == c.end_time - v.last_rep_time
         IN  IF v.rep_pattern # NoPattern
             THEN ~(2 * time_since_last_rep < v.rep_pattern.avg_rest_between_reps)
             ELSE ~(time_since_last_rep < default_min_rest_time)
    ELSE TRUE

\* a faulty variant: the learned bounds are used without the 0.8 s and 12 s limits
DurationInRange_NoLimits(v, c) ==
    IF v.rep_pattern # NoPattern
    THEN /\ 7 * v.rep_pattern.min_rep_duration <= 10 * c.duration
         /\ 10 * c.duration <= 15 * v.rep_pattern.max_rep_duration
    ELSE /\ default_min_rep_duration <= c.duration
         /\ c.duration <= default_max_rep_duration

\* the duration check of validate_rep_timing; with a pattern the bounds
\* max(0.7 * min, 0.8 s) and min(1.5 * max, 12 s) are compared tenfold
DurationInRange(v, c) ==
    IF v.rep_pattern # NoPattern
    THEN /\ Max(7 * v.rep_pattern.min_rep_duration, 80) <= 10 * c.duration
         /\ 10 * c.duration <= Min(15 * v.rep_pattern.max_rep_duration, 1200)
    ELSE /\ default_min_rep_duration <= c.duration
         /\ c.duration <= default_max_rep_duration

ValidateRepTiming(v, c) ==
    IF ~RestCheckPasses(v, c) THEN FALSE
    ELSE IF ~DurationInRange(v, c) THEN FALSE
    ELSE TRUE

UpdateLastRepTime(v, rep_time) == [v EXCEPT !.last_rep_time = rep_time]

-----------------------------------------------------------------------------
(* RepStateMachine *)

RepStateMachine ==
    [current_state |-> "waiting", motion_signal |-> FALSE, ml_signal |-> FALSE,
     rep_start_time |-> NoTime]

\* the detection method and confidence of a candidate
CandidateMethod(motion_complete, ml_complete) ==
    IF motion_complete /\ ml_complete THEN "hybrid"
    ELSE IF motion_complete THEN "motion_cycle"
    ELSE "ml_confidence"

\* a faulty variant: the tracker's average is used whenever a cycle was detected
CandidateConfidence_MlFirst(motion_complete, ml_complete, ml) ==
    IF ml # NoCycle /\ ml.has_avg THEN ml.avg_confidence
    ELSE IF motion_complete THEN MotionCycleConfidence
    ELSE DefaultMlConfidence

CandidateConfidence(motion_complete, ml_complete, ml) ==
    IF motion_complete /\ ml_complete THEN HybridConfidence
    ELSE IF motion_complete THEN MotionCycleConfidence
    ELSE IF ml # NoCycle /\ ml.has_avg THEN ml.avg_confidence
    ELSE DefaultMlConfidence

\* a faulty variant: the tracker's average replaces the default
CandidateQuality_TrackerAverage(ml) ==
    IF ml # NoCycle /\ ml.has_avg
    THEN ml.avg_confidence
    ELSE DefaultMotionQuality

\* motion_quality: 0.8, raised to the tracker's average when that is higher
CandidateQuality(ml) ==
    IF ml # NoCycle /\ ml.has_avg
    THEN Max(DefaultMotionQuality, ml.avg_confidence)
    ELSE DefaultMotionQuality

\* a faulty variant: motion completion without the one second since the start
MotionComplete_NoAge(r, motion_phase, current_time) ==
    /\ motion_phase = "rest"
    /\ r.rep_start_time # NoTime

\* motion_complete in update
MotionComplete(r, motion_phase, current_time) ==
    /\ motion_phase = "rest"
    /\ r.rep_start_time # NoTime
    /\ current_time - r.rep_start_time > MotionCompleteAge

\* a faulty variant: the start time of the rep is kept
ResetState_KeepsStart(r) == [r EXCEPT !.current_state = "waiting"]

\* "Reset state" in update, once the candidate is built
ResetState(r) ==
    [r EXCEPT !.current_state = "waiting", !.rep_start_time = NoTime]

\* update(motion_phase, ml_confidence_data) at clock current_time:
\* the machine afterwards and the candidate returned (NoCandidate for None)
RsmUpdate(r, motion_phase, ml, current_time) ==
    LET motion_signal == motion_phase \in {"up_motion", "peak", "down_motion"}
        ml_signal == ml # NoCycle
        r1 == [r EXCEPT !.motion_signal = motion_signal, !.ml_signal = ml_signal]
    IN  IF r.current_state = "waiting"
        THEN IF motion_signal \/ ml_signal
             THEN [rsm |-> [r1 EXCEPT !.current_state = "detecting",
                                      !.rep_start_time = current_time],
                   candidate |-> NoCandidate]
             ELSE [rsm |-> r1, candidate |-> NoCandidate]
        ELSE IF r.current_state = "detecting"
        THEN LET motion_complete == MotionComplete(r, motion_phase, current_time)
                 ml_complete == ml_signal
             IN  IF motion_complete \/ ml_complete
                 THEN [rsm |-> ResetState(r1),
                       candidate |->
                          [kind |-> "rep",
                           start_time |-> r.rep_start_time,
                           end_time |-> current_time,
                           confidence |->
                              CandidateConfidence(motion_complete, ml_complete, ml),
                           motion_quality |-> CandidateQuality(ml),
                           duration |-> current_time - r.rep_start_time,
                           detection_method |->
                              CandidateMethod(motion_complete, ml_complete),
                           motion_complete |-> motion_complete,
                           ml_complete |-> ml_complete]]
                 ELSE [rsm |-> r1, candidate |-> NoCandidate]
        ELSE [rsm |-> r1, candidate |-> NoCandidate]

-----------------------------------------------------------------------------
(* RepDetectionEngine *)

RepDetectionEngine(device_id, exercise_type, t) ==
    [device_id |-> device_id,
     exercise_type |-> exercise_type,
     motion_analyzer |-> MotionCycleAnalyzer(t),
     ml_confidence_tracker |-> MLConfidenceTracker,
     timing_validator |-> PersonalizedTimingValidator,
     rep_state_machine |-> RepStateMachine,
     patterns_loaded |-> FALSE]

\* load_patterns(db)
LoadPatterns(e, patterns) ==
    IF ~e.patterns_loaded
    THEN [e EXCEPT !.timing_validator =
                       LoadRepPattern(@, patterns, e.device_id, e.exercise_type),
                   !.patterns_loaded = TRUE]
    ELSE e

\* step 4 of process_sensor_data: the validator after a candidate was offered
\* a faulty variant: every candidate built moves the last rep time
ValidatorAfter_EveryCandidate(v, c) ==
    IF c # NoCandidate THEN UpdateLastRepTime(v, c.end_time) ELSE v

ValidatorAfter(v, c) ==
    IF c # NoCandidate /\ ValidateRepTiming(v, c)
    THEN UpdateLastRepTime(v, c.end_time)
    ELSE v

\* process_sensor_data(sensor_data, timestamp, ml_prediction): the engine
\* afterwards, the candidate the state machine built and the value returned
ProcessSensorData(e, accel_mag, timestamp, ml_prediction) ==
    LET analyzer == AddSensorData(e.motion_analyzer, accel_mag, timestamp)
        motion_phase == ReturnedPhase(analyzer)
        tracker == IF ml_prediction # NoPrediction
                   THEN AddPrediction(e.ml_confidence_tracker,
                                      ml_prediction.predicted_exercise,
                                      ml_prediction.confidence_score)
                   ELSE e.ml_confidence_tracker
        ml_confidence_data == IF ml_prediction # NoPrediction
                              THEN DetectConfidenceCycle(tracker)
                              ELSE NoCycle
        upd == RsmUpdate(e.rep_state_machine, motion_phase, ml_confidence_data,
                         timestamp)
        accepted == /\ upd.candidate # NoCandidate
                    /\ ValidateRepTiming(e.timing_validator, upd.candidate)
    IN  [engine |-> [e EXCEPT !.motion_analyzer = analyzer,
                              !.ml_confidence_tracker = tracker,
                              !.rep_state_machine = upd.rsm,
                              !.timing_validator =
                                  ValidatorAfter(@, upd.candidate)],
         candidate |-> upd.candidate,
         returned |-> IF accepted THEN upd.candidate ELSE NoCandidate]

-----------------------------------------------------------------------------
(* Initial state: the tables are empty, the manager tracks nothing *)

EmptyDict == [x \in {} |-> x]

NoCall == [op |-> "none"]

\* ConnectionManager(): no connection, no metadata, no queued message
ConnectionManager ==
    [active_connections |-> EmptyDict,
     connection_metadata |-> EmptyDict,
     message_queue |-> EmptyDict]

\* RealTimeInference, the process-wide inference engine
DefaultBufferSize == 500
MinReadings == 10

NoModel == [kind |-> "none"]

\* RealTimeInference(buffer_size=500)
RealTimeInference(buffer_size) ==
    [buffer_size |-> buffer_size,
     active_model |-> NoModel,
     model_package |-> NoModel,
     feature_extractor |-> NoModel,
     sensor_buffers |-> EmptyDict,
     prediction_count |-> 0,
     total_inference_time |-> 0]

\* add_sensor_data(device_id, sensor_data), statement by statement:
\* "device_id not in self.sensor_buffers",
\* "self.sensor_buffers[device_id] = deque(maxlen=self.buffer_size)" and
\* "self.sensor_buffers[device_id].append(sensor_dict)"
HasBuffer(inf, device_id) == device_id \in DOMAIN inf.sensor_buffers

CreateBuffer(inf, device_id) ==
    [inf EXCEPT !.sensor_buffers = DictSet(@, device_id, <<>>)]

\* a faulty variant: the deque keeps the oldest samples once it is full
AppendSample_KeepsOldest(inf, device_id, sensor_dict) ==
    [inf EXCEPT !.sensor_buffers[device_id] =
                    IF Len(@) < inf.buffer_size THEN Append(@, sensor_dict)
                                                ELSE @]

AppendSample(inf, device_id, sensor_dict) ==
    [inf EXCEPT !.sensor_buffers[device_id] =
                    DequeAppend(@, sensor_dict, inf.buffer_size)]

\* the whole of add_sensor_data, as one call that nothing interrupts
BufferSensorData(inf, device_id, sensor_dict) ==
    AppendSample(IF HasBuffer(inf, device_id) THEN inf
                 ELSE CreateBuffer(inf, device_id),
                 device_id, sensor_dict)

\* the sensor_dict of the n-th reading a device sends
SensorDict(n) == [timestamp |-> n]

InitTables ==
    /\ now = 0
    /\ sessions = <<>>
    /\ rep_events = <<>>
    /\ rep_patterns = [k \in Devices \X Exercises |-> NoPattern]
    /\ session_stats = EmptyDict
    /\ sink = <<>>
    /\ last = NoCall
    /\ readings = [d \in Devices |-> 0]
    /\ phase_trace = <<>>
    /\ fired = 0
    /\ inference_engine = RealTimeInference(DefaultBufferSize)
    /\ threads = EmptyDict
    /\ websocket_manager = ConnectionManager
    /\ websockets = EmptyDict

IdleGen == [runs |-> <<>>, since |-> 0, polled |-> TRUE]

-----------------------------------------------------------------------------
(* The analyzer on its own: samples fed to add_sensor_data one at a time,   *)
(* detect_rep_cycle polled after each.  The input is a piecewise constant   *)
(* signal, gen.runs its run-length encoding, one sample every SamplePeriod  *)
(* ticks of the clock.                                                      *)

SamplePeriod == 2
MaxSwitches == 3
MotionMags == {0, 400}

TestDevice == "d1"

\* the analyzer under test
AUT == rep_engines[TestDevice].motion_analyzer

GenCount(g) == SumSeq([i \in 1..Len(g.runs) |-> g.runs[i][2]])
GenLevel(g) == g.runs[Len(g.runs)][1]

\* the run-length encoding after one more sample of magnitude m
GenPush(g, m) ==
    IF g.runs # <<>> /\ GenLevel(g) = m
    THEN [g EXCEPT !.runs[Len(g.runs)] = <<m, @[2] + 1>>, !.since = 0,
                   !.polled = FALSE]
    ELSE [g EXCEPT !.runs = Append(@, <<m, 1>>), !.since = 0, !.polled = FALSE]

InitAnalyzer ==
    /\ InitTables
    /\ active_workouts = EmptyDict
    /\ rep_engines = [d \in {TestDevice} |->
                         RepDetectionEngine(d, "bicep_curl", 0)]
    /\ gen = [IdleGen EXCEPT !.since = SamplePeriod]

\* the clock advances between two samples
MotionTick ==
    /\ gen.polled
    /\ gen.since < SamplePeriod
    /\ now' = now + 1
    /\ gen' = [gen EXCEPT !.since = @ + 1]
    /\ UNCHANGED <<infVars, wsVars, dbVars, mgrVars, sink, last, phase_trace, fired>>

\* MotionCycleAnalyzer.add_sensor_data(sample, now)
FeedSample(m) ==
    LET a2 == AddSensorData(AUT, m, now)
    IN  /\ rep_engines' = [rep_engines EXCEPT ![TestDevice].motion_analyzer = a2]
        /\ phase_trace' = IF a2.current_phase # AUT.current_phase
                          THEN Append(phase_trace,
                                      [phase |-> a2.current_phase, at |-> now,
                                       n |-> GenCount(gen) + 1])
                          ELSE phase_trace
        /\ gen' = GenPush(gen, m)
        /\ last' = [op |-> "add_sensor_data", device |-> TestDevice,
                    returned |-> ReturnedPhase(a2)]
        /\ UNCHANGED <<infVars, wsVars, now, dbVars, active_workouts, session_stats, sink, fired>>

MotionAddSample ==
    /\ gen.polled
    /\ gen.since = SamplePeriod
    /\ GenCount(gen) < MaxMotionSamples
    /\ \E m \in MotionMags :
          /\ gen.runs # <<>> /\ GenLevel(gen) # m => Len(gen.runs) <= MaxSwitches
          /\ FeedSample(m)

\* MotionCycleAnalyzer.detect_rep_cycle()
MotionDetect ==
    /\ ~gen.polled
    /\ rep_engines' = [rep_engines EXCEPT ![TestDevice].motion_analyzer =
                           DetectRepCycle(AUT, now)]
    /\ fired' = IF CycleDetected(AUT, now) THEN fired + 1 ELSE fired
    /\ gen' = [gen EXCEPT !.polled = TRUE]
    /\ last' = [op |-> "detect_rep_cycle", device |-> TestDevice,
                rep_data |-> CycleDetected(AUT, now)]
    /\ UNCHANGED <<infVars, wsVars, now, dbVars, active_workouts, session_stats, sink, phase_trace>>

\* the phases entered so far, in order
PhasesEntered == [i \in 1..Len(phase_trace) |-> phase_trace[i].phase]

NextMotion == MotionTick \/ MotionAddSample \/ MotionDetect

SpecMotion == InitAnalyzer /\ [][NextMotion]_vars

-----------------------------------------------------------------------------
(* The analyzer fed the synthetic repetition: rest (0), ramp (5.0), hold    *)
(* (10.0), ramp down (5.0), rest (0), each stage a run of equal samples.    *)

MaxRest1 == 32
MaxRamp == 2
MaxHold == 11
MaxFinalRest == 16

Shape == <<0, 50, 100, 50, 0>>

RunCap(i) == CASE i = 1 -> MaxRest1
               [] i = 3 -> MaxHold
               [] i = 5 -> MaxFinalRest
               [] OTHER -> MaxRamp

\* one more sample of the current stage
CycleContinue ==
    /\ gen.polled
    /\ gen.since = SamplePeriod
    /\ gen.runs # <<>>
    /\ gen.runs[Len(gen.runs)][2] < RunCap(Len(gen.runs))
    /\ FeedSample(GenLevel(gen))

\* the first sample of the next stage
CycleAdvance ==
    /\ gen.polled
    /\ gen.since = SamplePeriod
    /\ Len(gen.runs) < Len(Shape)
    /\ FeedSample(Shape[Len(gen.runs) + 1])

NextCycle == MotionTick \/ CycleContinue \/ CycleAdvance \/ MotionDetect

SpecCycle == InitAnalyzer /\ [][NextCycle]_vars

-----------------------------------------------------------------------------
(* Claims about the motion phase machine *)

\* the whole synthetic sequence was fed: the final rest has lasted 15 samples,
\* after which the phase cannot change any more
SequenceFed ==
    /\ Len(gen.runs) = Len(Shape)
    /\ gen.runs[Len(Shape)][2] >= 15
    /\ gen.polled

\* each stage lasted longer than the minimum phase durations (0.3 s)
StagesOutlastPhases ==
    \A i \in 1..Len(gen.runs) : gen.runs[i][2] * SamplePeriod > 3

FullCycle == <<"up_motion", "peak", "down_motion", "rest">>

\* a request made in the final rest found 50 samples buffered less than 5 s
\* after peak was entered (the k-th sample arrives at (k - 1) * SamplePeriod)
RequestInTime ==
    /\ PhasesEntered = FullCycle
    /\ LET k == Max(phase_trace[4].n, 50)
       IN  /\ k <= GenCount(gen)
           /\ (k - 1) * SamplePeriod - phase_trace[2].at < 50

TableEdge(from, to, sum10, age) ==
    \/ from = "rest" /\ to = "up_motion" /\ sum10 > 300 /\ age > 3
    \/ from = "up_motion" /\ to = "peak" /\ sum10 > 800
    \/ from = "up_motion" /\ to = "rest" /\ sum10 < 150 /\ age > 3
    \/ from = "peak" /\ to = "down_motion" /\ sum10 < 300 /\ age > 1
    \/ from = "down_motion" /\ to = "rest" /\ sum10 < 150 /\ age > 3

\* C10: the motion phase changes only along the edges of the transition
\* table, each only when its guard holds on the mean of the 10 most recent
\* samples (mean > 3.0 and age > 0.3 s for rest to up_motion, mean > 8.0 for
\* up_motion to peak, mean < 1.5 and age > 0.3 s for up_motion to rest,
\* mean < 3.0 and age > 0.1 s for peak to down_motion, mean < 1.5 and
\* age > 0.3 s for down_motion to rest); a peak timestamp is recorded
\* exactly in the step that enters peak.
C10_PhaseChangesAlongTable ==
    [][LET a == AUT
           a2 == AUT'
           entered == a2.current_phase # a.current_phase
       IN  /\ entered =>
                 /\ Len(a2.motion_buffer) >= 10
                 /\ TableEdge(a.current_phase, a2.current_phase,
                              SumSeq(LastN(a2.motion_buffer, 10)),
                              now - a.phase_start_time)
           /\ (entered /\ a2.current_phase = "peak") => a2.last_peak_time = now
           /\ (a2.last_peak_time # a.last_peak_time /\ a2.last_peak_time # NoTime)
                 => (entered /\ a2.current_phase = "peak")
      ]_vars

\* C10 witness: the analyzer went around the whole table once
C10_Witness == PhasesEntered = <<"up_motion", "peak", "down_motion", "rest">>

-----------------------------------------------------------------------------
(* The rep state machine on its own: update called with every combination   *)
(* of motion phase and confidence data, the clock advancing in between.     *)

MaxRsmTime == 13

MotionPhases == {"none", "rest", "up_motion", "peak", "down_motion"}

ConfidenceData ==
    {NoCycle,
     [kind |-> "cycle", has_avg |-> TRUE, avg_confidence |-> 1700],
     [kind |-> "cycle", has_avg |-> TRUE, avg_confidence |-> 1000],
     [kind |-> "cycle", has_avg |-> FALSE, avg_confidence |-> 0]}

\* the state machine under test
RSM == rep_engines[TestDevice].rep_state_machine

InitRsm ==
    /\ InitTables
    /\ active_workouts = EmptyDict
    /\ rep_engines = [d \in {TestDevice} |->
                         RepDetectionEngine(d, "bicep_curl", 0)]
    /\ gen = IdleGen

RsmTick ==
    /\ now < MaxRsmTime
    /\ now' = now + 1
    /\ UNCHANGED <<infVars, wsVars, dbVars, mgrVars, sink, last, histVars>>

\* RepStateMachine.update(motion_phase, ml_confidence_data)
RsmCall ==
    \E motion_phase \in MotionPhases, ml \in ConfidenceData :
        LET upd == RsmUpdate(RSM, motion_phase, ml, now)
        IN  /\ rep_engines' =
                  [rep_engines EXCEPT ![TestDevice].rep_state_machine = upd.rsm]
            /\ last' = [op |-> "update", motion_phase |-> motion_phase,
                        ml |-> ml, returned |-> upd.candidate]
            /\ UNCHANGED <<infVars, wsVars, now, dbVars, active_workouts, session_stats, sink,
                           histVars>>

NextRsm == RsmTick \/ RsmCall

SpecRsm == InitRsm /\ [][NextRsm]_vars

\* the step is a call of update: the clock stands still and last' names it
UpdateStep == now' = now /\ last'.op = "update"

\* C7: the machine is in waiting or in detecting.  In waiting, an update with
\* a motion signal (up_motion, peak, down_motion) or a confidence cycle moves
\* it to detecting and records the start time; an update with neither leaves
\* it in waiting.  In detecting, an update returns a candidate exactly when
\* the phase is rest more than 1 s after the start or a confidence cycle is
\* detected; otherwise it stays in detecting with the start time unchanged.
C7_RepStateMachineSteps ==
    [][UpdateStep =>
        LET r == RSM
            r2 == RSM'
            signal == \/ last'.motion_phase \in {"up_motion", "peak", "down_motion"}
                      \/ last'.ml # NoCycle
            complete == \/ (last'.motion_phase = "rest" /\ now - r.rep_start_time > 10)
                        \/ last'.ml # NoCycle
        IN  /\ r.current_state \in {"waiting", "detecting"}
            /\ r2.current_state \in {"waiting", "detecting"}
            /\ (r.current_state = "waiting" /\ signal) =>
                  /\ r2.current_state = "detecting"
                  /\ r2.rep_start_time = now
                  /\ last'.returned = NoCandidate
            /\ (r.current_state = "waiting" /\ ~signal) =>
                  /\ r2.current_state = "waiting"
                  /\ r2.rep_start_time = r.rep_start_time
                  /\ last'.returned = NoCandidate
            /\ r.current_state = "detecting" =>
                  /\ (last'.returned # NoCandidate) <=> complete
                  /\ ~complete =>
                        /\ r2.current_state = "detecting"
                        /\ r2.rep_start_time = r.rep_start_time
      ]_vars

\* C7 witness: an update in detecting returned a candidate on motion alone
C7_Witness ==
    /\ last.op = "update"
    /\ last.returned # NoCandidate
    /\ last.motion_phase = "rest"
    /\ last.ml = NoCycle

\* C8: a candidate built when both motion completion and a confidence cycle
\* are present is hybrid with confidence 0.9; with motion completion only it
\* is motion_cycle with 0.7; with a confidence cycle only it is ml_confidence
\* with the tracker's average confidence, 0.6 when that value is absent.
C8_CandidateTagAndConfidence ==
    [][(UpdateStep /\ last'.returned # NoCandidate) =>
        LET c == last'.returned
            motion == last'.motion_phase = "rest" /\ now - RSM.rep_start_time > 10
            cycle == last'.ml # NoCycle
        IN  /\ (motion /\ cycle) =>
                  (c.detection_method = "hybrid" /\ c.confidence = 1800)
            /\ (motion /\ ~cycle) =>
                  (c.detection_method = "motion_cycle" /\ c.confidence = 1400)
            /\ (~motion /\ cycle) =>
                  /\ c.detection_method = "ml_confidence"
                  /\ c.confidence = IF last'.ml.has_avg
                                    THEN last'.ml.avg_confidence ELSE 1200
      ]_vars

\* C8 witness: a hybrid candidate was built from a cycle with average 0.85
C8_Witness ==
    /\ last.op = "update"
    /\ last.returned # NoCandidate
    /\ last.returned.detection_method = "hybrid"
    /\ last.ml # NoCycle /\ last.ml.has_avg /\ last.ml.avg_confidence = 1700

-----------------------------------------------------------------------------
(* The timing validator on its own, as the engine drives it: a candidate    *)
(* ending now is validated and, when accepted, becomes the last rep.        *)

MaxTimingTime == 31

TimingPatterns ==
    {NoPattern,
     [kind |-> "pattern", avg_rep_duration |-> <<20, 1>>, min_rep_duration |-> 10,
      max_rep_duration |-> 40, avg_rest_between_reps |-> 20,
      training_session_count |-> 1],
     [kind |-> "pattern", avg_rep_duration |-> <<60, 1>>, min_rep_duration |-> 20,
      max_rep_duration |-> 100, avg_rest_between_reps |-> 20,
      training_session_count |-> 2]}

Durations == {5, 7, 8, 10, 13, 14, 21, 60, 61, 80, 81, 120, 121}

\* the validator under test
VAL == rep_engines[TestDevice].timing_validator

InitTiming ==
    /\ InitTables
    /\ active_workouts = EmptyDict
    /\ \E p \in TimingPatterns :
          rep_engines = [d \in {TestDevice} |->
              [RepDetectionEngine(d, "bicep_curl", 0) EXCEPT
                  !.timing_validator.rep_pattern = p,
                  !.patterns_loaded = TRUE]]
    /\ gen = IdleGen

TimingTick ==
    /\ now < MaxTimingTime
    /\ now' = now + 1
    /\ UNCHANGED <<infVars, wsVars, dbVars, mgrVars, sink, last, histVars>>

\* step 4 of RepDetectionEngine.process_sensor_data on a candidate ending now
OfferCandidate ==
    \E d \in Durations :
        LET c == [kind |-> "rep", start_time |-> now - d, end_time |-> now,
                  duration |-> d]
        IN  /\ rep_engines' = [rep_engines EXCEPT
                  ![TestDevice].timing_validator = ValidatorAfter(@, c)]
            /\ last' = [op |-> "validate", candidate |-> c,
                        last_rep_time |-> VAL.last_rep_time,
                        accepted |-> ValidateRepTiming(VAL, c)]
            /\ UNCHANGED <<infVars, wsVars, now, dbVars, active_workouts, session_stats, sink,
                           histVars>>

NextTiming == TimingTick \/ OfferCandidate

SpecTiming == InitTiming /\ [][NextTiming]_vars

ValidateStep == now' = now /\ last'.op = "validate"

\* the candidate ends less than the minimum rest after the last accepted rep:
\* 0.5 x the learned average rest with a pattern, 0.5 s without
TooSoon(v, c) ==
    /\ v.last_rep_time # NoTime
    /\ IF v.rep_pattern # NoPattern
       THEN 2 * (c.end_time - v.last_rep_time) < v.rep_pattern.avg_rest_between_reps
       ELSE c.end_time - v.last_rep_time < 5

\* the closed interval of acceptable durations, tenfold:
\* [max(0.7 x min, 0.8 s), min(1.5 x max, 12 s)] with a pattern, [1 s, 8 s] without
InInterval(v, c) ==
    IF v.rep_pattern # NoPattern
    THEN /\ 10 * c.duration >= 7 * v.rep_pattern.min_rep_duration
         /\ 10 * c.duration >= 80
         /\ 10 * c.duration <= 15 * v.rep_pattern.max_rep_duration
         /\ 10 * c.duration <= 1200
    ELSE c.duration >= 10 /\ c.duration <= 80

\* C5: a candidate ending less than the minimum rest after the last accepted
\* rep is rejected whatever its duration; before the first accepted rep the
\* rest check rejects nothing; two consecutively accepted reps end at least
\* the minimum rest apart.
C5_MinimumRest ==
    [][ValidateStep =>
        LET v == VAL
            c == last'.candidate
        IN  /\ TooSoon(v, c) => ~last'.accepted
            /\ v.last_rep_time = NoTime => (last'.accepted <=> InInterval(v, c))
            /\ (VAL'.last_rep_time # v.last_rep_time /\ v.last_rep_time # NoTime) =>
                  /\ last'.accepted
                  /\ ~TooSoon(v, [c EXCEPT !.end_time = VAL'.last_rep_time])
      ]_vars

\* C5 witness: with a pattern loaded, a candidate of acceptable duration
\* ending 0.7 s after the last accepted rep was rejected
C5_Witness ==
    /\ last.op = "validate"
    /\ ~last.accepted
    /\ VAL.rep_pattern # NoPattern
    /\ last.last_rep_time # NoTime
    /\ last.candidate.end_time - last.last_rep_time = 7
    /\ last.candidate.duration = 21

\* C6: a candidate that passes the rest check is accepted if and only if its
\* duration lies in [max(0.7 x learned min, 0.8 s), min(1.5 x learned max, 12 s)]
\* with a pattern loaded, in [1.0 s, 8.0 s] without.
C6_DurationInterval ==
    [][(ValidateStep /\ ~TooSoon(VAL, last'.candidate)) =>
        (last'.accepted <=> InInterval(VAL, last'.candidate))
      ]_vars

\* C6 witness: with the pattern avg 2.0, min 1.0, max 4.0 a 2.1 s candidate
\* ending 3 s after the last accepted rep was accepted
C6_Witness ==
    /\ last.op = "validate"
    /\ last.accepted
    /\ last.candidate.duration = 21
    /\ VAL.rep_pattern # NoPattern
    /\ VAL.rep_pattern.min_rep_duration = 10
    /\ VAL.rep_pattern.max_rep_duration = 40
    /\ last.last_rep_time # NoTime
    /\ last.candidate.end_time - last.last_rep_time = 30

-----------------------------------------------------------------------------
(* WorkoutManager and the workouts router: rows and dictionaries            *)

MinPatternSamples == 3
DefaultAvgRest == 20
NewPatternConfidence == 70
PatternConfidenceStep == 5
MaxPatternConfidence == 95
FormWarningQuality == 1200

\* a WorkoutSession row as the constructor and the column defaults leave it
WorkoutSession(device_id, exercise_type, target_sets, target_reps_per_set) ==
    [device_id |-> device_id,
     exercise_type |-> exercise_type,
     target_sets |-> target_sets,
     target_reps_per_set |-> target_reps_per_set,
     current_set |-> 1,
     current_reps |-> 0,
     status |-> "active"]

\* a RepEvent row
RepEvent(device_id, workout_session_id, rep_number, set_number, event_type, confidence_score, motion_quality, rep_duration, detection_method) ==
    [device_id |-> device_id,
     workout_session_id |-> workout_session_id,
     rep_number |-> rep_number,
     set_number |-> set_number,
     event_type |-> event_type,
     confidence_score |-> confidence_score,
     motion_quality |-> motion_quality,
     rep_duration |-> rep_duration,
     detection_method |-> detection_method]

\* the stats start_workout registers for a session; avg_confidence and
\* avg_rep_duration are kept as the sums they are the means of
SessionStats ==
    [total_reps |-> 0,
     sets_completed |-> 0,
     form_warnings |-> 0,
     confidence_sum |-> 0,
     rep_durations |-> <<>>]

\* stats["avg_confidence"], rounded down to the unit of confidence
AvgConfidence(stats) ==
    IF stats.total_reps = 0 THEN 0 ELSE stats.confidence_sum \div stats.total_reps

RECURSIVE Gcd(_, _)
Gcd(a, b) == IF b = 0 THEN a ELSE Gcd(b, a % b)

\* the fraction n / d in lowest terms
Frac(n, d) == LET g == Gcd(n, d) IN <<n \div g, d \div g>>

SeqMin(s) == CHOOSE x \in {s[i] : i \in 1..Len(s)} :
                 \A i \in 1..Len(s) : x <= s[i]
SeqMax(s) == CHOOSE x \in {s[i] : i \in 1..Len(s)} :
                 \A i \in 1..Len(s) : x >= s[i]

\* the database and the manager, as the value the operations below transform
World ==
    [sessions |-> sessions,
     rep_events |-> rep_events,
     rep_patterns |-> rep_patterns,
     active_workouts |-> active_workouts,
     rep_engines |-> rep_engines,
     session_stats |-> session_stats,
     sink |-> sink]

\* a faulty variant: an update of an existing row leaves its session count
UpdateRepPatterns_KeepsCount(m, id, t) ==
    LET workout == m.sessions[id]
        rep_durations == IF id \in DOMAIN m.session_stats
                         THEN m.session_stats[id].rep_durations
                         ELSE <<>>
        key == <<workout.device_id, workout.exercise_type>>
        pattern == m.rep_patterns[key]
    IN  IF Len(rep_durations) < MinPatternSamples
        THEN m
        ELSE IF pattern = NoPattern
        THEN [m EXCEPT !.rep_patterns[key] =
                 [kind |-> "pattern",
                  avg_rep_duration |-> Frac(SumSeq(rep_durations),
                                            Len(rep_durations)),
                  min_rep_duration |-> SeqMin(rep_durations),
                  max_rep_duration |-> SeqMax(rep_durations),
                  avg_rest_between_reps |-> DefaultAvgRest,
                  training_session_count |-> 1,
                  confidence_score |-> NewPatternConfidence,
                  last_updated |-> t]]
        ELSE [m EXCEPT !.rep_patterns[key].last_updated = t]

\* _update_rep_patterns(db, workout) at clock t
UpdateRepPatterns(m, id, t) ==
    LET workout == m.sessions[id]
        rep_durations == IF id \in DOMAIN m.session_stats
                         THEN m.session_stats[id].rep_durations
                         ELSE <<>>
        key == <<workout.device_id, workout.exercise_type>>
        pattern == m.rep_patterns[key]
        n == pattern.training_session_count
        mean == Frac(SumSeq(rep_durations), Len(rep_durations))
    IN  IF Len(rep_durations) < MinPatternSamples
        THEN m
        ELSE IF pattern = NoPattern
        THEN [m EXCEPT !.rep_patterns[key] =
                 [kind |-> "pattern",
                  avg_rep_duration |-> mean,
                  min_rep_duration |-> SeqMin(rep_durations),
                  max_rep_duration |-> SeqMax(rep_durations),
                  avg_rest_between_reps |-> DefaultAvgRest,
                  training_session_count |-> 1,
                  confidence_score |-> NewPatternConfidence,
                  last_updated |-> t]]
        ELSE [m EXCEPT !.rep_patterns[key] =
                 [pattern EXCEPT
                     !.avg_rep_duration =
                         Frac(@[1] * n * mean[2] + mean[1] * @[2],
                              @[2] * mean[2] * (n + 1)),
                     !.min_rep_duration = Min(@, SeqMin(rep_durations)),
                     !.max_rep_duration = Max(@, SeqMax(rep_durations)),
                     !.training_session_count = n + 1,
                     !.confidence_score =
                         Min(MaxPatternConfidence, @ + PatternConfidenceStep),
                     !.last_updated = t]]

\* the notifications handed to the websocket manager
RepCompletedMessage(device_id, rep_event, workout) ==
    [type |-> "rep_completed",
     device_id |-> device_id,
     rep_number |-> rep_event.rep_number,
     set_number |-> rep_event.set_number,
     current_set |-> workout.current_set,
     current_reps |-> workout.current_reps]

SetCompletedMessage(device_id, workout, stats) ==
    [type |-> "set_completed",
     device_id |-> device_id,
     set_number |-> workout.current_set - 1,
     total_reps |-> workout.target_reps_per_set,
     sets_completed |-> stats.sets_completed]

WorkoutCompletedMessage(device_id, workout, stats) ==
    [type |-> "workout_completed",
     device_id |-> device_id,
     total_sets |-> stats.sets_completed,
     total_reps |-> stats.total_reps,
     form_warnings |-> stats.form_warnings]

FormWarningMessage(device_id, motion_quality) ==
    [type |-> "form_warning",
     device_id |-> device_id,
     motion_quality |-> motion_quality]

\* a set closing one rep late
SetCompleted_OneRepLate(workout, current_reps) ==
    current_reps > workout.target_reps_per_set

\* the set is completed by the rep that brings the counter to current_reps
SetCompleted(workout, current_reps) ==
    current_reps >= workout.target_reps_per_set

\* the set just completed is the last one of the workout
LastSetCompleted(workout) == workout.current_set >= workout.target_sets

\* a faulty variant: a quality of exactly 0.6 warns as well
FormWarning_AtThreshold(c) == c.motion_quality <= FormWarningQuality

\* the form check of _handle_rep_detected
FormWarning(c) == c.motion_quality < FormWarningQuality

\* _handle_rep_detected(db, workout, rep_candidate) at clock t, for a session
\* that has an entry in session_stats
HandleRepDetected(m, id, c, t) ==
    LET workout == m.sessions[id]
        device_id == workout.device_id
        rep_event == RepEvent(device_id, id, workout.current_reps + 1,
                              workout.current_set, "rep_completed",
                              c.confidence, c.motion_quality, c.duration,
                              c.detection_method)
        form_warning == FormWarning(c)
        current_reps == workout.current_reps + 1
        set_completed == SetCompleted(workout, current_reps)
        workout_completed == set_completed /\ LastSetCompleted(workout)
        stats == [m.session_stats[id] EXCEPT
                     !.total_reps = @ + 1,
                     !.rep_durations = Append(@, c.duration),
                     !.confidence_sum = @ + c.confidence,
                     !.form_warnings = IF form_warning THEN @ + 1 ELSE @,
                     !.sets_completed = IF set_completed THEN @ + 1 ELSE @]
        set_event == RepEvent(device_id, id, 0, workout.current_set,
                              "set_completed", AvgConfidence(stats),
                              c.motion_quality, NoTime, "none")
        after == IF workout_completed
                 THEN [workout EXCEPT !.current_reps = current_reps,
                                      !.status = "completed"]
                 ELSE IF set_completed
                 THEN [workout EXCEPT !.current_set = @ + 1,
                                      !.current_reps = 0]
                 ELSE [workout EXCEPT !.current_reps = current_reps]
        pushed ==
            (IF form_warning
             THEN <<FormWarningMessage(device_id, c.motion_quality)>>
             ELSE <<>>)
            \o <<RepCompletedMessage(device_id, rep_event, after)>>
            \o (IF set_completed
                THEN <<SetCompletedMessage(device_id, after, stats)>>
                ELSE <<>>)
            \o (IF workout_completed
                THEN <<WorkoutCompletedMessage(device_id, after, stats)>>
                ELSE <<>>)
        m1 == [m EXCEPT
                  !.sessions[id] = after,
                  !.rep_events = @ \o <<rep_event>>
                                   \o (IF set_completed THEN <<set_event>>
                                                        ELSE <<>>),
                  !.session_stats[id] = stats,
                  !.active_workouts = IF workout_completed
                                      THEN DictDel(@, device_id) ELSE @,
                  !.rep_engines = IF workout_completed
                                  THEN DictDel(@, device_id) ELSE @,
                  !.sink = @ \o pushed]
    IN  IF workout_completed THEN UpdateRepPatterns(m1, id, t) ELSE m1

\* a faulty variant: the patterns are updated from the ended workout
EndWorkoutOn_LearnsPattern(m, device_id) ==
    IF device_id \notin DOMAIN m.active_workouts
    THEN m
    ELSE LET id == m.active_workouts[device_id]
         IN  IF id \in 1..Len(m.sessions) /\ m.sessions[id].status = "active"
             THEN [UpdateRepPatterns(m, id, 0) EXCEPT
                      !.sessions[id].status = "completed",
                      !.active_workouts = DictDel(@, device_id),
                      !.rep_engines = DictDel(@, device_id),
                      !.session_stats = DictDel(@, id)]
             ELSE m

\* end_workout(db, device_id)
EndWorkoutOn(m, device_id) ==
    IF device_id \notin DOMAIN m.active_workouts
    THEN m
    ELSE LET id == m.active_workouts[device_id]
         IN  IF id \in 1..Len(m.sessions) /\ m.sessions[id].status = "active"
             THEN [m EXCEPT !.sessions[id].status = "completed",
                            !.active_workouts = DictDel(@, device_id),
                            !.rep_engines = DictDel(@, device_id),
                            !.session_stats = DictDel(@, id)]
             ELSE m

\* the variables take the values of m
Becomes(m) ==
    /\ sessions' = m.sessions
    /\ rep_events' = m.rep_events
    /\ rep_patterns' = m.rep_patterns
    /\ active_workouts' = m.active_workouts
    /\ rep_engines' = m.rep_engines
    /\ session_stats' = m.session_stats
    /\ sink' = m.sink

-----------------------------------------------------------------------------
(* The workout manager driven by its callers.  One WorkoutManager is        *)
(* modelled, the one the workouts router starts workouts on; the ingestion  *)
(* router holds another, on which no workout is ever started.               *)

TickStep == 10

TargetSets == 1..MaxSets
TargetReps == 1..MaxReps

\* what the classifier hands over with a sample: a confident prediction of
\* the exercise
MlPredictions ==
    {[predicted_exercise |-> "bicep_curl", confidence_score |-> 90]}

SessionIds == 1..Len(sessions)

\* the device stream: the number of samples it has delivered to the manager
IdleStream == [calls |-> 0]

Init ==
    /\ InitTables
    /\ active_workouts = EmptyDict
    /\ rep_engines = EmptyDict
    /\ gen = IdleStream

Tick ==
    /\ now + TickStep <= MaxTime
    /\ now' = now + TickStep
    /\ UNCHANGED <<infVars, wsVars, dbVars, mgrVars, sink, last, histVars>>

\* WorkoutManager.start_workout(db, device_id, exercise_type, target_sets,
\* target_reps_per_set), the first definition of that name
StartWorkout(device_id, exercise_type, target_sets, target_reps_per_set) ==
        LET m == EndWorkoutOn(World, device_id)
            id == Len(m.sessions) + 1
            rep_engine == LoadPatterns(
                              RepDetectionEngine(device_id, exercise_type, now),
                              m.rep_patterns)
        IN  /\ Len(sessions) < MaxSessions
            /\ Becomes([m EXCEPT
                   !.sessions = Append(@, WorkoutSession(device_id,
                                    exercise_type, target_sets,
                                    target_reps_per_set)),
                   !.active_workouts = DictSet(@, device_id, id),
                   !.rep_engines = DictSet(@, device_id, rep_engine),
                   !.session_stats = DictSet(@, id, SessionStats)])
            /\ last' = [op |-> "start_workout", device_id |-> device_id,
                        workout_id |-> id]
            /\ UNCHANGED <<infVars, wsVars, now, readings, histVars>>

\* POST /workouts/start: the router inserts the row, then awaits
\* WorkoutManager.start_workout(device_id, exercise_type, workout_session_id),
\* the second definition of that name and the one the class ends up with
RouterStartWorkout(device_id, exercise_type, target_sets, target_reps) ==
        LET id == Len(sessions) + 1
        IN  /\ Len(sessions) < MaxSessions
            /\ sessions' = Append(sessions,
                               WorkoutSession(device_id, exercise_type,
                                              target_sets, target_reps))
            /\ active_workouts' = DictSet(active_workouts, device_id, id)
            /\ rep_engines' =
                   IF device_id \notin DOMAIN rep_engines
                   THEN DictSet(rep_engines, device_id,
                            RepDetectionEngine(device_id, exercise_type, now))
                   ELSE rep_engines
            /\ last' = [op |-> "router_start_workout", device_id |-> device_id,
                        workout_id |-> id]
            /\ UNCHANGED <<infVars, wsVars, now, rep_events, rep_patterns, readings,
                           session_stats, sink, histVars>>

\* a faulty variant: the status of the session is not looked at
Tracked_AnyStatus(device_id) ==
    /\ device_id \in DOMAIN active_workouts
    /\ active_workouts[device_id] \in SessionIds
    /\ device_id \in DOMAIN rep_engines

\* the guards of process_rep_detection: the device is tracked, its session
\* row exists with status active, and the device has an engine
Tracked(device_id) ==
    /\ device_id \in DOMAIN active_workouts
    /\ active_workouts[device_id] \in SessionIds
    /\ sessions[active_workouts[device_id]].status = "active"
    /\ device_id \in DOMAIN rep_engines

\* WorkoutManager.process_rep_detection(db, device_id, sensor_data,
\* ml_prediction) with _handle_rep_detected.  A session the manager keeps no
\* stats for makes the handler raise KeyError before anything is committed.
ProcessRepDetection(device_id, ml_prediction) ==
        LET tracked == Tracked(device_id)
            id == active_workouts[device_id]
            res == ProcessSensorData(rep_engines[device_id], 0, now,
                                     ml_prediction)
            m == [World EXCEPT !.rep_engines[device_id] = res.engine]
            call == [op |-> "process_rep_detection", device_id |-> device_id]
        IN  /\ tracked
            /\ gen.calls < MaxCalls
            /\ gen' = [gen EXCEPT !.calls = @ + 1]
            /\ IF res.returned = NoCandidate
               THEN /\ Becomes(m)
                    /\ last' = call @@ [workout_id |-> id,
                                        candidate |-> res.candidate,
                                        accepted |-> FALSE,
                                        raised |-> "none"]
               ELSE IF id \notin DOMAIN session_stats
               THEN /\ Becomes(m)
                    /\ last' = call @@ [workout_id |-> id,
                                        candidate |-> res.candidate,
                                        accepted |-> TRUE,
                                        raised |-> "KeyError"]
               ELSE /\ Becomes(HandleRepDetected(m, id, res.returned, now))
                    /\ last' = call @@ [workout_id |-> id,
                                        candidate |-> res.candidate,
                                        accepted |-> TRUE,
                                        raised |-> "none"]
            /\ UNCHANGED <<infVars, wsVars, now, readings, phase_trace, fired>>

\* WorkoutManager.end_workout(db, device_id), called on its own
EndWorkout(device_id) ==
        /\ EndWorkoutOn(World, device_id) # World
        /\ Becomes(EndWorkoutOn(World, device_id))
        /\ last' = [op |-> "end_workout", device_id |-> device_id,
                    workout_id |-> active_workouts[device_id]]
        /\ UNCHANGED <<infVars, wsVars, now, readings, histVars>>

\* workout.status == "active" as the routes write it: the attribute holds a
\* member of WorkoutStatus, an enum.Enum that does not derive from str, and
\* such a member is equal to no string
StatusEqualsStr(workout_status, literal) == FALSE

\* a route that raises HTTPException(status_code) before it changes anything
Refused(call, device_id, status_code) ==
    /\ last' = call @@ [device_id |-> device_id, status_code |-> status_code]
    /\ UNCHANGED <<infVars, wsVars, now, dbVars, mgrVars, sink, histVars>>

\* POST /workouts/{id}/complete with WorkoutManager.stop_workout; the message
\* it broadcasts goes to the router's own ConnectionManager, not to sink
CompleteWorkout(id) ==
    LET call == [op |-> "complete_workout", workout_id |-> id]
    IN  IF id \notin SessionIds
        THEN Refused(call, "none", 404)
        ELSE IF ~StatusEqualsStr(sessions[id].status, "active")
        THEN Refused(call, sessions[id].device_id, 400)
        ELSE LET device_id == sessions[id].device_id
             IN  /\ sessions' = [sessions EXCEPT ![id].status = "completed"]
                 /\ active_workouts' = DictDel(active_workouts, device_id)
                 /\ rep_engines' = DictDel(rep_engines, device_id)
                 /\ last' = call @@ [device_id |-> device_id,
                                     status_code |-> 200]
                 /\ UNCHANGED <<infVars, wsVars, now, rep_events, rep_patterns,
                                readings, session_stats, sink, histVars>>

\* POST /workouts/{id}/pause
PauseWorkout(id) ==
    LET call == [op |-> "pause_workout", workout_id |-> id]
    IN  IF id \notin SessionIds
        THEN Refused(call, "none", 404)
        ELSE IF ~StatusEqualsStr(sessions[id].status, "active")
        THEN Refused(call, sessions[id].device_id, 400)
        ELSE /\ sessions' = [sessions EXCEPT ![id].status = "paused"]
             /\ last' = call @@ [device_id |-> sessions[id].device_id,
                                 status_code |-> 200]
             /\ UNCHANGED <<infVars, wsVars, now, rep_events, rep_patterns, readings,
                            mgrVars, sink, histVars>>

\* POST /workouts/{id}/resume
ResumeWorkout(id) ==
    LET call == [op |-> "resume_workout", workout_id |-> id]
    IN  IF id \notin SessionIds
        THEN Refused(call, "none", 404)
        ELSE IF ~StatusEqualsStr(sessions[id].status, "paused")
        THEN Refused(call, sessions[id].device_id, 400)
        ELSE /\ sessions' = [sessions EXCEPT ![id].status = "active"]
             /\ last' = call @@ [device_id |-> sessions[id].device_id,
                                 status_code |-> 200]
             /\ UNCHANGED <<infVars, wsVars, now, rep_events, rep_patterns, readings,
                            mgrVars, sink, histVars>>

\* a device has a session whose status is active, as the ingestion route's
\* query finds it
HasActiveSession(device_id) ==
    \E id \in SessionIds : /\ sessions[id].device_id = device_id
                           /\ sessions[id].status = "active"

\* POST /sensor-data/: the reading is committed; when the device has an
\* active session the route calls process_sensor_data(device_id, sensor_data,
\* active_workout.id) on the ingestion router's WorkoutManager without the
\* db argument the method requires, the call raises TypeError and the route
\* answers 500.  No detection engine is touched on either path.  The reading
\* goes into the inference engine's buffer of the device before that.
ReceiveSensorData(device_id) ==
        /\ readings[device_id] < MaxReadings
        /\ readings' = [readings EXCEPT ![device_id] = @ + 1]
        /\ last' = [op |-> "receive_sensor_data", device_id |-> device_id,
                    active_workout |-> HasActiveSession(device_id),
                    raised |-> IF HasActiveSession(device_id)
                               THEN "TypeError" ELSE "none",
                    status_code |-> IF HasActiveSession(device_id)
                                    THEN 500 ELSE 200]
        /\ inference_engine' =
               BufferSensorData(inference_engine, device_id,
                                SensorDict(readings[device_id] + 1))
        /\ UNCHANGED <<wsVars, threads, now, sessions, rep_events, rep_patterns,
                       mgrVars, sink, histVars>>

\* the ids the routes are called with: every stored session and an id no
\* session has
WorkoutIds == 1..(MaxSessions + 1)

\* every route and method called for both devices; no rep is followed, the
\* stream delivers at most MaxStreamed samples and the clock stands still
Next ==
    \/ \E d \in Devices :
          StartWorkout(d, "bicep_curl", MaxSets, MaxReps)
    \/ \E d \in Devices :
          RouterStartWorkout(d, "bicep_curl", MaxSets, MaxReps)
    \/ \E d \in Devices, ml \in MlPredictions :
          gen.calls < MaxStreamed /\ ProcessRepDetection(d, ml)
    \/ \E d \in Devices : EndWorkout(d)
    \/ \E id \in WorkoutIds : CompleteWorkout(id)
    \/ \E id \in WorkoutIds : PauseWorkout(id)
    \/ \E id \in WorkoutIds : ResumeWorkout(id)
    \/ \E d \in Devices : ReceiveSensorData(d)

Spec == Init /\ [][Next]_vars

\* One workout followed to its end: a single session is started, by either
\* definition of start_workout, and the device streams up to MaxCalls samples
NextWorkout ==
    \/ Tick
    \/ \E target_sets \in TargetSets, target_reps \in TargetReps :
          /\ sessions = <<>>
          /\ StartWorkout(TestDevice, "bicep_curl", target_sets, target_reps)
    \/ \E target_sets \in TargetSets, target_reps \in TargetReps :
          /\ sessions = <<>>
          /\ RouterStartWorkout(TestDevice, "bicep_curl", target_sets,
                                target_reps)
    \/ \E ml \in MlPredictions : ProcessRepDetection(TestDevice, ml)

SpecWorkout == Init /\ [][NextWorkout]_vars
-----------------------------------------------------------------------------
(* Claims about workout progression *)

\* the rows of rep_events that belong to session id, as
\* <<event_type, set_number, rep_number>>
EventsOf(id) ==
    LET own == SelectSeq(rep_events, LAMBDA e : e.workout_session_id = id)
    IN  [i \in 1..Len(own) |->
            <<own[i].event_type, own[i].set_number, own[i].rep_number>>]

\* the types of the progress notifications pushed for a device
PushedFor(device_id) ==
    LET own == SelectSeq(sink, LAMBDA msg : /\ msg.device_id = device_id
                                            /\ msg.type # "form_warning")
    IN  [i \in 1..Len(own) |-> own[i].type]

RepsOf(id) ==
    Len(SelectSeq(EventsOf(id), LAMBDA e : e[1] = "rep_completed"))

\* the event rows n accepted reps of a workout of R reps per set must give:
\* rep i is rep ((i - 1) % R) + 1 of set ((i - 1) \div R) + 1, and a
\* set_completed row follows it exactly when i is a multiple of R
RECURSIVE ExpectedEvents(_, _)
ExpectedEvents(R, n) ==
    IF n = 0 THEN <<>>
    ELSE ExpectedEvents(R, n - 1)
         \o <<<<"rep_completed", ((n - 1) \div R) + 1, ((n - 1) % R) + 1>>>>
         \o (IF n % R = 0 THEN <<<<"set_completed", n \div R, 0>>>> ELSE <<>>)

\* the notifications they must give: workout_completed once, after rep S * R
RECURSIVE ExpectedPushed(_, _, _)
ExpectedPushed(S, R, n) ==
    IF n = 0 THEN <<>>
    ELSE ExpectedPushed(S, R, n - 1)
         \o <<"rep_completed">>
         \o (IF n % R = 0 THEN <<"set_completed">> ELSE <<>>)
         \o (IF n = S * R THEN <<"workout_completed">> ELSE <<>>)

ActiveSessions(device_id) ==
    {id \in SessionIds : /\ sessions[id].device_id = device_id
                         /\ sessions[id].status = "active"}

\* C2: every device has at most one session whose status is active.
C2_OneActiveSessionPerDevice ==
    \A d \in Devices : Cardinality(ActiveSessions(d)) <= 1

\* a step that is one call of process_rep_detection reaching the engine
ProcessStep ==
    gen'.calls = gen.calls + 1 /\ last'.op = "process_rep_detection"

RepMessages(q) == Len(SelectSeq(q, LAMBDA msg : msg.type = "rep_completed"))

RepRows(rows, id) ==
    Len(SelectSeq(rows, LAMBDA e : /\ e.workout_session_id = id
                                   /\ e.event_type = "rep_completed"))

\* C3: a candidate the timing validator accepts for an active session is
\* applied exactly once, one rep_completed row with the next rep number and
\* one rep_completed notification, and no error is raised; a call whose
\* candidate is rejected, or that builds none, changes no row and pushes
\* nothing.
C3_AcceptedCandidateApplied ==
    [][ProcessStep =>
        LET id == last'.workout_id
        IN  /\ last'.raised = "none"
            /\ IF last'.accepted
               THEN /\ RepRows(rep_events', id) = RepRows(rep_events, id) + 1
                    /\ RepMessages(sink') = RepMessages(sink) + 1
                    /\ \E i \in 1..Len(rep_events') :
                          /\ i > Len(rep_events)
                          /\ rep_events'[i].event_type = "rep_completed"
                          /\ rep_events'[i].rep_number =
                                 sessions[id].current_reps + 1
               ELSE /\ rep_events' = rep_events
                    /\ sessions' = sessions
                    /\ sink' = sink]_vars

\* a step that is one call of the ingestion route
ReceiveStep == last'.op = "receive_sensor_data" /\ readings' # readings

\* C4: a sample submitted through the ingestion route for a device with an
\* active session reaches that device's engine: the route raises nothing and
\* the engine's analyzer has taken the sample.
C4_SampleReachesEngine ==
    [][(ReceiveStep /\ last'.active_workout) =>
        LET d == last'.device_id
        IN  /\ last'.raised = "none"
            /\ d \in DOMAIN rep_engines'
            /\ d \in DOMAIN rep_engines =>
                  rep_engines'[d].motion_analyzer.motion_buffer
                      = DequeAppend(rep_engines[d].motion_analyzer.motion_buffer,
                                    0, window_size)]_vars

-----------------------------------------------------------------------------
(* detect_rep_cycle requested again right after it returned a rep *)

\* MotionCycleAnalyzer.detect_rep_cycle(), a second request with no sample
\* in between
MotionDetectAgain ==
    /\ gen.polled
    /\ last.op = "detect_rep_cycle" /\ last.rep_data
    /\ "repeated" \notin DOMAIN last
    /\ rep_engines' = [rep_engines EXCEPT ![TestDevice].motion_analyzer =
                           DetectRepCycle(AUT, now)]
    /\ fired' = IF CycleDetected(AUT, now) THEN fired + 1 ELSE fired
    /\ last' = [op |-> "detect_rep_cycle", device |-> TestDevice,
                rep_data |-> CycleDetected(AUT, now), repeated |-> TRUE]
    /\ UNCHANGED <<infVars, wsVars, now, dbVars, active_workouts, session_stats, sink,
                   phase_trace, gen>>

NextDetect ==
    MotionTick \/ CycleContinue \/ CycleAdvance \/ MotionDetect
        \/ MotionDetectAgain

SpecDetect == InitAnalyzer /\ [][NextDetect]_vars

\* a step that is one request for a rep cycle
DetectStep ==
    /\ last'.op = "detect_rep_cycle"
    /\ \/ gen'.polled # gen.polled
       \/ "repeated" \in DOMAIN last' /\ "repeated" \notin DOMAIN last

\* the phase is rest and a peak was recorded less than 5 s ago
RestAfterRecentPeak ==
    /\ AUT.current_phase = "rest"
    /\ AUT.last_peak_time # NoTime
    /\ now - AUT.last_peak_time < 50

PeaksEntered ==
    Len(SelectSeq(phase_trace, LAMBDA p : p.phase = "peak"))

-----------------------------------------------------------------------------
(* The confidence tracker on its own: predictions added one at a time,      *)
(* detect_confidence_cycle called after each.  gen.runs is the run-length   *)
(* encoding of the <<label, confidence>> stream.                            *)

PredictionLabels == {"bicep_curl", "squat"}
PredictionConfidences == {55, 81, 90}

\* the tracker under test
TRK == rep_engines[TestDevice].ml_confidence_tracker

InitTracker ==
    /\ InitTables
    /\ active_workouts = EmptyDict
    /\ rep_engines = [d \in {TestDevice} |->
                         RepDetectionEngine(d, "bicep_curl", 0)]
    /\ gen = [runs |-> <<>>]

\* add_prediction(prediction, confidence, timestamp), then
\* detect_confidence_cycle()
TrackerFeed ==
    \E prediction \in PredictionLabels, confidence \in PredictionConfidences :
        LET p == <<prediction, confidence>>
            k == Len(gen.runs)
            tr == AddPrediction(TRK, prediction, confidence)
            cycle == DetectConfidenceCycle(tr)
        IN  /\ GenCount(gen) < MaxPredictions
            /\ (k > 0 /\ gen.runs[k][1] # p) => k <= MaxPredictionSwitches
            /\ gen' = IF k > 0 /\ gen.runs[k][1] = p
                      THEN [gen EXCEPT !.runs[k][2] = @ + 1]
                      ELSE [gen EXCEPT !.runs = Append(@, <<p, 1>>)]
            /\ rep_engines' = [rep_engines EXCEPT
                                  ![TestDevice].ml_confidence_tracker = tr]
            /\ fired' = IF cycle # NoCycle THEN fired + 1 ELSE fired
            /\ last' = [op |-> "detect_confidence_cycle", cycle |-> cycle]
            /\ UNCHANGED <<infVars, wsVars, now, dbVars, active_workouts, session_stats, sink,
                           phase_trace>>

NextTracker == TrackerFeed

SpecTracker == InitTracker /\ [][NextTracker]_vars

\* every prediction fed so far carries one label and a confidence above 0.8
AllHighOneLabel ==
    /\ gen.runs # <<>>
    /\ \A i \in 1..Len(gen.runs) : /\ gen.runs[i][1][1] = gen.runs[1][1][1]
                                   /\ gen.runs[i][1][2] > 80

\* every prediction fed so far has a confidence below 0.6
AllLow == \A i \in 1..Len(gen.runs) : gen.runs[i][1][2] < 60

\* C12: of predictions fed one at a time, all with one label and confidence
\* above 0.8, the first 19 yield no confidence-cycle detection and the 20th
\* yields the first one (every later one yields one more); predictions
\* whose confidences are all below 0.6 yield none however many are fed.
C12_DetectionAtTwentieth ==
    /\ AllHighOneLabel =>
          fired = IF GenCount(gen) < 20 THEN 0 ELSE GenCount(gen) - 19
    /\ AllLow => fired = 0

\* C12 witness: 20 high-confidence predictions of one label, one detection
C12_Witness ==
    /\ AllHighOneLabel
    /\ GenCount(gen) = 20
    /\ fired = 1
    /\ last.cycle # NoCycle

-----------------------------------------------------------------------------
(* Learned patterns across workouts: the rep_patterns table may hold a row  *)
(* from earlier workouts of the device when the manager is constructed, a   *)
(* workout of one set is run to its target or ended by hand, and a second   *)
(* workout may be started once the first has run to its target.             *)

PatternKey == <<TestDevice, "bicep_curl">>

StoredPatterns ==
    {NoPattern,
     [kind |-> "pattern", avg_rep_duration |-> <<20, 1>>,
      min_rep_duration |-> 20, max_rep_duration |-> 20,
      avg_rest_between_reps |-> 20, training_session_count |-> 1,
      confidence_score |-> 70, last_updated |-> 0],
     [kind |-> "pattern", avg_rep_duration |-> <<25, 1>>,
      min_rep_duration |-> 20, max_rep_duration |-> 40,
      avg_rest_between_reps |-> 20, training_session_count |-> 2,
      confidence_score |-> 92, last_updated |-> 0]}

InitPattern ==
    /\ now = 0
    /\ sessions = <<>>
    /\ rep_events = <<>>
    /\ \E p \in StoredPatterns :
          rep_patterns = [k \in Devices \X Exercises |->
                             IF k = PatternKey THEN p ELSE NoPattern]
    /\ active_workouts = EmptyDict
    /\ rep_engines = EmptyDict
    /\ session_stats = EmptyDict
    /\ sink = <<>>
    /\ last = NoCall
    /\ readings = [d \in Devices |-> 0]
    /\ phase_trace = <<>>
    /\ fired = 0
    /\ gen = IdleStream
    /\ inference_engine = RealTimeInference(DefaultBufferSize)
    /\ threads = EmptyDict
    /\ websocket_manager = ConnectionManager
    /\ websockets = EmptyDict

\* the workouts started so far all ran to their targets
RanToTarget ==
    \A id \in SessionIds : /\ sessions[id].status = "completed"
                           /\ id \in DOMAIN session_stats

NextPattern ==
    \/ Tick
    \/ \E target_reps \in TargetReps :
          /\ RanToTarget
          /\ StartWorkout(TestDevice, "bicep_curl", 1, target_reps)
    \/ \E target_reps \in TargetReps :
          /\ sessions # <<>> /\ RanToTarget
          /\ RouterStartWorkout(TestDevice, "bicep_curl", 1, target_reps)
    \/ \E ml \in MlPredictions : ProcessRepDetection(TestDevice, ml)
    \/ EndWorkout(TestDevice)

SpecPattern == InitPattern /\ [][NextPattern]_vars

\* a step in which the accepted rep reaches the targets of workout id
CompletionStep(id) ==
    /\ ProcessStep
    /\ sessions[id].status = "active"
    /\ sessions'[id].status = "completed"

\* the durations of the accepted reps of a workout, from its event rows
DurationsOf(rows, id) ==
    LET own == SelectSeq(rows, LAMBDA e : /\ e.workout_session_id = id
                                          /\ e.event_type = "rep_completed")
    IN  [i \in 1..Len(own) |-> own[i].rep_duration]

PatternOf(table, id) ==
    table[<<sessions[id].device_id, sessions[id].exercise_type>>]

\* new = old * n / (n + 1) + mean(d) / (n + 1), on fractions
IsBlend(new, old, n, d) ==
    new[1] * (old[2] * Len(d) * (n + 1))
        = new[2] * (old[1] * n * Len(d) + SumSeq(d) * old[2])

\* C13: when a workout completes for a (device, exercise) whose pattern row
\* exists with session count n, the row's average becomes
\* old * n / (n + 1) + mean / (n + 1) over the workout's accepted rep
\* durations, its minimum and maximum widen to cover them, and its count
\* becomes n + 1.
C13_WeightedUpdate ==
    [][\A id \in SessionIds :
          (CompletionStep(id) /\ PatternOf(rep_patterns, id) # NoPattern) =>
              LET old == PatternOf(rep_patterns, id)
                  new == PatternOf(rep_patterns', id)
                  d == DurationsOf(rep_events', id)
                  n == old.training_session_count
              IN  /\ new.training_session_count = n + 1
                  /\ IsBlend(new.avg_rep_duration, old.avg_rep_duration, n, d)
                  /\ new.min_rep_duration = Min(old.min_rep_duration, SeqMin(d))
                  /\ new.max_rep_duration = Max(old.max_rep_duration, SeqMax(d))
      ]_vars

\* C14: when a workout completes for a (device, exercise) that has no
\* pattern row, a row is created whose average, minimum and maximum are the
\* mean, minimum and maximum of the workout's accepted rep durations and
\* whose session count is 1, whatever the number of accepted reps.
C14_FirstPatternCreated ==
    [][\A id \in SessionIds :
          (CompletionStep(id) /\ PatternOf(rep_patterns, id) = NoPattern) =>
              LET new == PatternOf(rep_patterns', id)
                  d == DurationsOf(rep_events', id)
              IN  /\ new # NoPattern
                  /\ new.avg_rep_duration[1] * Len(d)
                         = new.avg_rep_duration[2] * SumSeq(d)
                  /\ new.min_rep_duration = SeqMin(d)
                  /\ new.max_rep_duration = SeqMax(d)
                  /\ new.training_session_count = 1
      ]_vars

\* a step that starts a workout, through the manager or through the router
StartStep ==
    /\ Len(sessions') = Len(sessions) + 1
    /\ last'.op \in {"start_workout", "router_start_workout"}

\* an earlier workout of the same device and exercise completed and its
\* pattern update was applied
UpdateApplied(device_id, exercise_type) ==
    /\ rep_patterns[<<device_id, exercise_type>>] # NoPattern
    /\ \E id \in SessionIds :
          /\ sessions[id].device_id = device_id
          /\ sessions[id].exercise_type = exercise_type
          /\ sessions[id].status = "completed"
          /\ rep_patterns[<<device_id, exercise_type>>].last_updated > 0

\* C15: once a workout has completed and its pattern update was applied, a
\* workout started afterwards for the same device and exercise has its timing
\* validator loaded with the stored row, not with the defaults or an earlier
\* version of the row.
C15_LaterWorkoutLoadsPattern ==
    [][StartStep =>
          LET started == sessions'[Len(sessions')]
              key == <<started.device_id, started.exercise_type>>
          IN  UpdateApplied(key[1], key[2]) =>
                  /\ started.device_id \in DOMAIN rep_engines'
                  /\ rep_engines'[started.device_id].timing_validator.rep_pattern
                         = rep_patterns'[key]
      ]_vars

\* C16: the session count of a pattern row never decreases, is at least 1
\* once the row exists, and every change of a row (its creation included)
\* raises the count by exactly one.
C16_SessionCountGrowsByOne ==
    [][\A key \in Devices \X Exercises :
          LET old == rep_patterns[key]
              new == rep_patterns'[key]
              n == IF old = NoPattern THEN 0 ELSE old.training_session_count
          IN  /\ old # NoPattern => new # NoPattern
              /\ new # NoPattern => /\ new.training_session_count >= 1
                                    /\ new.training_session_count >= n
              /\ new # old => new.training_session_count = n + 1
      ]_vars

\* a stored row was updated by a completed workout
C16_Witness ==
    /\ rep_patterns[PatternKey] # NoPattern
    /\ rep_patterns[PatternKey].last_updated > 0
    /\ rep_patterns[PatternKey].training_session_count = 3

-----------------------------------------------------------------------------
(* Claims about the detection components of a started workout *)

FreshComponents(e) ==
    /\ e.motion_analyzer.current_phase = "rest"
    /\ e.motion_analyzer.motion_buffer = <<>>
    /\ e.motion_analyzer.last_peak_time = NoTime
    /\ e.ml_confidence_tracker.confidence_buffer = <<>>
    /\ e.rep_state_machine.current_state = "waiting"
    /\ e.rep_state_machine.rep_start_time = NoTime
    /\ e.timing_validator.last_rep_time = NoTime

\* C17: immediately after a workout is started for a device, the device's
\* detection components are fresh: analyzer at rest with an empty buffer and
\* no peak, empty confidence tracker, state machine waiting with no start
\* time, validator with no last rep time.
C17_FreshComponentsAfterStart ==
    [][StartStep =>
          LET device_id == sessions'[Len(sessions')].device_id
          IN  /\ device_id \in DOMAIN rep_engines'
              /\ FreshComponents(rep_engines'[device_id])
      ]_vars

-----------------------------------------------------------------------------
(* The per-device sample buffers of the inference engine: an engine of the  *)
(* default or of a small capacity takes the readings of both devices, one   *)
(* add_sensor_data call at a time.                                          *)

BufferSizes == {SmallBufferSize, DefaultBufferSize}

\* the number of readings a device sends
PushLimit(device_id) ==
    IF device_id = TestDevice THEN MaxPushed ELSE MaxOtherPushed

InitBuffer ==
    /\ now = 0
    /\ sessions = <<>>
    /\ rep_events = <<>>
    /\ rep_patterns = [k \in Devices \X Exercises |-> NoPattern]
    /\ active_workouts = EmptyDict
    /\ rep_engines = EmptyDict
    /\ session_stats = EmptyDict
    /\ sink = <<>>
    /\ last = NoCall
    /\ readings = [d \in Devices |-> 0]
    /\ phase_trace = <<>>
    /\ fired = 0
    /\ gen = [pushed |-> [d \in Devices |-> 0]]
    /\ \E buffer_size \in BufferSizes :
          inference_engine = RealTimeInference(buffer_size)
    /\ threads = EmptyDict
    /\ websocket_manager = ConnectionManager
    /\ websockets = EmptyDict

\* inference_engine.add_sensor_data(device_id, sensor_data)
PushSample(device_id) ==
    /\ gen.pushed[device_id] < PushLimit(device_id)
    /\ inference_engine' =
           BufferSensorData(inference_engine, device_id,
                            SensorDict(gen.pushed[device_id] + 1))
    /\ gen' = [gen EXCEPT !.pushed[device_id] = @ + 1]
    /\ last' = [op |-> "add_sensor_data", device_id |-> device_id]
    /\ UNCHANGED <<wsVars, threads, now, dbVars, mgrVars, sink, phase_trace, fired>>

NextBuffer == \E d \in Devices : PushSample(d)

SpecBuffer == InitBuffer /\ [][NextBuffer]_vars

\* the n most recent of the first pushed readings of a device, oldest first
MostRecent(pushed, n) == [i \in 1..n |-> SensorDict(pushed - n + i)]

BufferHoldsMostRecent(device_id) ==
    LET pushed == gen.pushed[device_id]
        inf == inference_engine
    IN  IF pushed = 0
        THEN ~HasBuffer(inf, device_id)
        ELSE /\ HasBuffer(inf, device_id)
             /\ Len(inf.sensor_buffers[device_id]) <= inf.buffer_size
             /\ inf.sensor_buffers[device_id]
                    = MostRecent(pushed, Min(pushed, inf.buffer_size))

OthersUntouched ==
    \A d \in Devices :
        gen'.pushed[d] = gen.pushed[d] =>
            /\ HasBuffer(inference_engine', d) = HasBuffer(inference_engine, d)
            /\ HasBuffer(inference_engine, d) =>
                   inference_engine'.sensor_buffers[d]
                       = inference_engine.sensor_buffers[d]

\* C20: a device's buffer exists from the device's first sample on, never
\* holds more than the capacity, and holds exactly the most recent
\* min(pushed, capacity) samples of the device in arrival order; a push for
\* one device leaves the buffers of the other devices as they were.
C20_BoundedFifoPerDevice ==
    /\ [](\A d \in Devices : BufferHoldsMostRecent(d))
    /\ [][OthersUntouched]_vars

\* the default capacity was exceeded while another device also has a buffer
C20_Witness ==
    /\ inference_engine.buffer_size = DefaultBufferSize
    /\ gen.pushed[TestDevice] > DefaultBufferSize
    /\ \E d \in Devices \ {TestDevice} : gen.pushed[d] > 0

-----------------------------------------------------------------------------
(* Overlapping sample-processing steps: two callers run add_sensor_data on  *)
(* the one inference engine at the same time.  The method takes no lock, so *)
(* the callers interleave between its statements.                           *)

Callers == {"t1", "t2"}

\* a caller enters add_sensor_data for the next reading of a device and
\* tests "device_id not in self.sensor_buffers"
CallAddSensorData(t, device_id) ==
    /\ t \notin DOMAIN threads
    /\ gen.pushed[device_id] < MaxOverlapPushed
    /\ threads' = DictSet(threads, t,
                     [pc |-> IF HasBuffer(inference_engine, device_id)
                             THEN "append" ELSE "create",
                      device_id |-> device_id,
                      sensor_dict |-> SensorDict(gen.pushed[device_id] + 1)])
    /\ gen' = [gen EXCEPT !.pushed[device_id] = @ + 1]
    /\ UNCHANGED <<wsVars, inference_engine, last, now, dbVars, mgrVars, sink,
                   phase_trace, fired>>

\* self.sensor_buffers[device_id] = deque(maxlen=self.buffer_size)
CreateDeque(t) ==
    /\ t \in DOMAIN threads
    /\ threads[t].pc = "create"
    /\ inference_engine' = CreateBuffer(inference_engine, threads[t].device_id)
    /\ threads' = [threads EXCEPT ![t].pc = "append"]
    /\ UNCHANGED <<wsVars, last, now, dbVars, mgrVars, sink, histVars>>

\* self.sensor_buffers[device_id].append(sensor_dict), and the call returns
AppendToDeque(t) ==
    /\ t \in DOMAIN threads
    /\ threads[t].pc = "append"
    /\ inference_engine' = AppendSample(inference_engine, threads[t].device_id,
                                        threads[t].sensor_dict)
    /\ threads' = DictDel(threads, t)
    /\ last' = [op |-> "add_sensor_data", device_id |-> threads[t].device_id]
    /\ UNCHANGED <<wsVars, now, dbVars, mgrVars, sink, histVars>>

NextOverlap ==
    \/ \E t \in Callers, d \in Devices : CallAddSensorData(t, d)
    \/ \E t \in Callers : CreateDeque(t)
    \/ \E t \in Callers : AppendToDeque(t)

SpecOverlap == InitBuffer /\ [][NextOverlap]_vars

\* the readings of a device whose add_sensor_data call has returned
Returned(device_id) ==
    {SensorDict(n) : n \in 1..gen.pushed[device_id]}
        \ {threads[t].sensor_dict :
              t \in {u \in DOMAIN threads : threads[u].device_id = device_id}}

Buffered(device_id) ==
    IF HasBuffer(inference_engine, device_id)
    THEN {inference_engine.sensor_buffers[device_id][i] :
             i \in 1..Len(inference_engine.sensor_buffers[device_id])}
    ELSE {}

\* C19: sample-processing steps of one device that overlap in time leave
\* what running them one after the other would leave: every reading whose
\* step has returned is in the device's buffer, once.
C19_OverlappingStepsSerializable ==
    \A d \in Devices :
        /\ Returned(d) \subseteq Buffered(d)
        /\ HasBuffer(inference_engine, d) =>
               Cardinality(Buffered(d))
                   = Len(inference_engine.sensor_buffers[d])

-----------------------------------------------------------------------------
(* A model load overlapping a prediction: one caller runs load_active_model *)
(* while another runs predict_exercise on the same engine.  Neither method  *)
(* takes a lock or copies the engine's attributes first, so the callers     *)
(* interleave between the statements that write and read them.              *)

\* the artifacts on disk; artifact a was trained with a window of
\* MinReadings + a - 1 readings, the shortest windows feature extraction takes
Artifacts == 1..MaxArtifacts

ArtifactWindow(a) == MinReadings + a - 1

\* the processing times a prediction may measure, in milliseconds
Latencies == {1, 2}

\* the pickled model package of artifact a, each part tagged with a
ModelPackage(a) ==
    [kind |-> "package",
     model |-> a,
     scaler |-> a,
     label_encoder |-> a,
     feature_names |-> a,
     feature_extractor_config |-> [window_size |-> ArtifactWindow(a)]]

\* the MLModel row of artifact a
MLModel(a) == [kind |-> "model", version |-> a]

FeatureExtractor(size) == [kind |-> "extractor", window_size |-> size]

InitModelLoad ==
    /\ now = 0
    /\ sessions = <<>>
    /\ rep_events = <<>>
    /\ rep_patterns = [k \in Devices \X Exercises |-> NoPattern]
    /\ active_workouts = EmptyDict
    /\ rep_engines = EmptyDict
    /\ session_stats = EmptyDict
    /\ sink = <<>>
    /\ last = NoCall
    /\ readings = [d \in Devices |-> 0]
    /\ phase_trace = <<>>
    /\ fired = 0
    /\ gen = [loads |-> 0, predictions |-> 0, returned |-> 0, latency |-> 0]
    /\ \E n \in 0..MaxBuffered :
          inference_engine =
              [RealTimeInference(DefaultBufferSize) EXCEPT
                  !.sensor_buffers =
                      IF n = 0 THEN EmptyDict
                      ELSE DictSet(EmptyDict, TestDevice,
                                   [i \in 1..n |-> SensorDict(i)])]
    /\ threads = EmptyDict
    /\ websocket_manager = ConnectionManager
    /\ websockets = EmptyDict

\* load_active_model, up to "self.model_package = pickle.load(f)": the
\* active row is artifact a
LoadPackage(a) ==
    /\ "loader" \notin DOMAIN threads
    /\ gen.loads < MaxLoads
    /\ inference_engine' =
           [inference_engine EXCEPT !.model_package = ModelPackage(a)]
    /\ threads' = DictSet(threads, "loader",
                          [pc |-> "active_model", db_model |-> MLModel(a)])
    /\ gen' = [gen EXCEPT !.loads = @ + 1]
    /\ UNCHANGED <<wsVars, last, now, dbVars, mgrVars, sink, phase_trace, fired>>

\* self.active_model = db_model
LoadActiveModel ==
    /\ "loader" \in DOMAIN threads
    /\ threads["loader"].pc = "active_model"
    /\ inference_engine' =
           [inference_engine EXCEPT !.active_model = threads["loader"].db_model]
    /\ threads' = [threads EXCEPT !["loader"].pc = "feature_extractor"]
    /\ UNCHANGED <<wsVars, last, now, dbVars, mgrVars, sink, histVars>>

\* self.feature_extractor = FeatureExtractor(window_size=fe_config...), and
\* the call returns True
LoadFeatureExtractor ==
    /\ "loader" \in DOMAIN threads
    /\ threads["loader"].pc = "feature_extractor"
    /\ inference_engine' =
           [inference_engine EXCEPT
               !.feature_extractor =
                   FeatureExtractor(inference_engine.model_package
                                        .feature_extractor_config.window_size)]
    /\ threads' = DictDel(threads, "loader")
    /\ last' = [op |-> "load_active_model", response |-> NoPrediction]
    /\ UNCHANGED <<wsVars, now, dbVars, mgrVars, sink, histVars>>

\* a faulty variant: the window test is left out
CanPredict_AnyWindow(inf, device_id) ==
    /\ inf.model_package # NoModel
    /\ inf.feature_extractor # NoModel
    /\ HasBuffer(inf, device_id)

\* predict_exercise(device_id) up to the window test: None when no model is
\* loaded, the device has no buffer or the buffer is shorter than the window
CanPredict(inf, device_id) ==
    /\ inf.model_package # NoModel
    /\ inf.feature_extractor # NoModel
    /\ HasBuffer(inf, device_id)
    /\ ~(Len(inf.sensor_buffers[device_id]) < inf.feature_extractor.window_size)

PredictBegin(device_id) ==
    /\ "predictor" \notin DOMAIN threads
    /\ gen.predictions < MaxPredictCalls
    /\ gen' = [gen EXCEPT !.predictions = @ + 1]
    /\ IF CanPredict(inference_engine, device_id)
       THEN /\ threads' = DictSet(threads, "predictor",
                              [pc |-> "extract", device_id |-> device_id,
                               used |-> [kind |-> "prediction"]])
            /\ last' = last
       ELSE /\ threads' = threads
            /\ last' = [op |-> "predict_exercise", response |-> NoPrediction]
    /\ UNCHANGED <<wsVars, inference_engine, now, dbVars, mgrVars, sink, phase_trace,
                   fired>>

\* one statement of predict_exercise that reads an attribute of the engine
PredictRead(pc, next_pc, part, value) ==
    /\ "predictor" \in DOMAIN threads
    /\ threads["predictor"].pc = pc
    /\ threads' = [threads EXCEPT
                      !["predictor"].pc = next_pc,
                      !["predictor"].used =
                          [k \in DOMAIN @ \cup {part} |->
                              IF k = part THEN value ELSE @[k]]]
    /\ UNCHANGED <<wsVars, inference_engine, last, now, dbVars, mgrVars, sink,
                   histVars>>

\* latest_readings = list(buffer)[-self.feature_extractor.window_size:]
PredictExtract ==
    PredictRead("extract", "feature_names", "window_size",
                inference_engine.feature_extractor.window_size)

\* feature_names = self.model_package['feature_names']
PredictFeatureNames ==
    PredictRead("feature_names", "scaler", "feature_names",
                inference_engine.model_package.feature_names)

\* scaler = self.model_package['scaler']
PredictScale ==
    PredictRead("scaler", "model", "scaler",
                inference_engine.model_package.scaler)

\* model = self.model_package['model']
PredictClassify ==
    PredictRead("model", "label_encoder", "model",
                inference_engine.model_package.model)

\* label_encoder = self.model_package['label_encoder']
PredictDecode ==
    PredictRead("label_encoder", "respond", "label_encoder",
                inference_engine.model_package.label_encoder)

\* the response, with model_version=self.active_model.version, after the
\* counters were updated with the measured processing time
PredictRespond(processing_time) ==
    /\ "predictor" \in DOMAIN threads
    /\ threads["predictor"].pc = "respond"
    /\ inference_engine' =
           [inference_engine EXCEPT
               !.prediction_count = @ + 1,
               !.total_inference_time = @ + processing_time]
    /\ gen' = [gen EXCEPT !.returned = @ + 1, !.latency = @ + processing_time]
    /\ last' = [op |-> "predict_exercise",
                response |->
                    [kind |-> "prediction",
                     window_size |-> threads["predictor"].used.window_size,
                     feature_names |-> threads["predictor"].used.feature_names,
                     scaler |-> threads["predictor"].used.scaler,
                     model |-> threads["predictor"].used.model,
                     label_encoder |-> threads["predictor"].used.label_encoder,
                     model_version |-> inference_engine.active_model.version]]
    /\ threads' = DictDel(threads, "predictor")
    /\ UNCHANGED <<wsVars, now, dbVars, mgrVars, sink, phase_trace, fired>>

NextModelLoad ==
    \/ \E a \in Artifacts : LoadPackage(a)
    \/ LoadActiveModel
    \/ LoadFeatureExtractor
    \/ PredictBegin(TestDevice)
    \/ PredictExtract
    \/ PredictFeatureNames
    \/ PredictScale
    \/ PredictClassify
    \/ PredictDecode
    \/ \E processing_time \in Latencies : PredictRespond(processing_time)

SpecModelLoad == InitModelLoad /\ [][NextModelLoad]_vars

\* C18: every prediction made, also one that overlaps a model load, uses a
\* feature-name list, scaler, classifier, label encoder, window size and
\* reported model version of one and the same artifact.
C18_PredictionUsesOneArtifact ==
    (last.op = "predict_exercise" /\ last.response # NoPrediction) =>
        \E a \in Artifacts :
            /\ last.response.feature_names = a
            /\ last.response.scaler = a
            /\ last.response.model = a
            /\ last.response.label_encoder = a
            /\ last.response.model_version = a
            /\ last.response.window_size = ArtifactWindow(a)

-----------------------------------------------------------------------------
(* Predictions made one call at a time, as the routes make them: loads of   *)
(* an artifact, predictions from a device's buffer and predictions from a   *)
(* supplied list of readings, each call running to its end before the next. *)

\* load_active_model(db, model_name) with artifact a the active row
LoadedEngine(inf, a) ==
    [inf EXCEPT !.model_package = ModelPackage(a),
                !.active_model = MLModel(a),
                !.feature_extractor = FeatureExtractor(
                    ModelPackage(a).feature_extractor_config.window_size)]

\* the ModelPredictionResponse built from the engine's attributes
Response(inf) ==
    [kind |-> "prediction",
     window_size |-> inf.feature_extractor.window_size,
     feature_names |-> inf.model_package.feature_names,
     scaler |-> inf.model_package.scaler,
     model |-> inf.model_package.model,
     label_encoder |-> inf.model_package.label_encoder,
     model_version |-> inf.active_model.version]

\* predict_from_sensor_list(sensor_data_list) up to the window test
CanPredictList(inf, n) ==
    /\ inf.model_package # NoModel
    /\ inf.feature_extractor # NoModel
    /\ ~(n < inf.feature_extractor.window_size)

LoadModel(a) ==
    /\ gen.loads < MaxLoads
    /\ inference_engine' = LoadedEngine(inference_engine, a)
    /\ gen' = [gen EXCEPT !.loads = @ + 1]
    /\ last' = [op |-> "load_active_model", response |-> NoPrediction]
    /\ UNCHANGED <<wsVars, threads, now, dbVars, mgrVars, sink, phase_trace, fired>>

\* predict_exercise(device_id): the counters are updated before the response
\* is built
PredictExercise(device_id, processing_time) ==
    /\ gen.predictions < MaxPredictCalls
    /\ IF CanPredict(inference_engine, device_id)
       THEN /\ inference_engine' =
                   [inference_engine EXCEPT
                       !.prediction_count = @ + 1,
                       !.total_inference_time = @ + processing_time]
            /\ gen' = [gen EXCEPT !.predictions = @ + 1,
                                  !.returned = @ + 1,
                                  !.latency = @ + processing_time]
            /\ last' = [op |-> "predict_exercise", device_id |-> device_id,
                        response |-> Response(inference_engine)]
       ELSE /\ inference_engine' = inference_engine
            /\ gen' = [gen EXCEPT !.predictions = @ + 1]
            /\ last' = [op |-> "predict_exercise", device_id |-> device_id,
                        response |-> NoPrediction]
    /\ UNCHANGED <<wsVars, threads, now, dbVars, mgrVars, sink, phase_trace, fired>>

\* predict_from_sensor_list(sensor_data_list) for a list of n readings: the
\* response is built and returned, the counters are not touched
PredictFromSensorList(n, processing_time) ==
    /\ gen.predictions < MaxPredictCalls
    /\ inference_engine' = inference_engine
    /\ IF CanPredictList(inference_engine, n)
       THEN /\ gen' = [gen EXCEPT !.predictions = @ + 1,
                                  !.returned = @ + 1,
                                  !.latency = @ + processing_time]
            /\ last' = [op |-> "predict_from_sensor_list", samples |-> n,
                        response |-> Response(inference_engine)]
       ELSE /\ gen' = [gen EXCEPT !.predictions = @ + 1]
            /\ last' = [op |-> "predict_from_sensor_list", samples |-> n,
                        response |-> NoPrediction]
    /\ UNCHANGED <<wsVars, threads, now, dbVars, mgrVars, sink, phase_trace, fired>>

NextPredict ==
    \/ \E a \in Artifacts : LoadModel(a)
    \/ \E d \in Devices, processing_time \in Latencies :
          PredictExercise(d, processing_time)
    \/ \E n \in 0..MaxBuffered, processing_time \in Latencies :
          PredictFromSensorList(n, processing_time)

SpecPredict == InitModelLoad /\ [][NextPredict]_vars

\* a prediction call was made in this step
PredictStep ==
    /\ gen'.predictions = gen.predictions + 1
    /\ last'.op \in {"predict_exercise", "predict_from_sensor_list"}

\* the number of readings the prediction of this step has to work on
SamplesOffered ==
    IF last'.op = "predict_from_sensor_list" THEN last'.samples
    ELSE IF HasBuffer(inference_engine, last'.device_id)
    THEN Len(inference_engine.sensor_buffers[last'.device_id])
    ELSE 0

\* no artifact is loaded, or the readings are fewer than its window size
CannotPredict ==
    \/ inference_engine.model_package = NoModel
    \/ SamplesOffered
           < inference_engine.model_package.feature_extractor_config.window_size

\* C21: a prediction requested while no artifact is loaded, or for fewer
\* readings than the artifact's window size (a device without a buffer
\* included), returns no result and changes neither the buffers nor the
\* prediction counters.
C21_FailedPredictionChangesNothing ==
    [][(PredictStep /\ CannotPredict) =>
          /\ last'.response = NoPrediction
          /\ inference_engine' = inference_engine
      ]_vars

\* a buffer prediction was refused for a loaded model and a short buffer
C21_Witness ==
    /\ last.op = "predict_exercise"
    /\ last.response = NoPrediction
    /\ inference_engine.model_package # NoModel
    /\ HasBuffer(inference_engine, last.device_id)
    /\ inference_engine.prediction_count > 0

\* C22: the total-predictions counter equals the number of predictions that
\* returned a result, from either entry point, and the cumulative latency is
\* the sum of their processing times.
C22_CountersCountEveryResult ==
    /\ inference_engine.prediction_count = gen.returned
    /\ inference_engine.total_inference_time = gen.latency

-----------------------------------------------------------------------------
(* FeatureExtractor: extract_features_from_readings and                     *)
(* create_windows_from_readings as functions of the readings handed in.  A  *)
(* reading is what matters of its dictionary: whether it carries the        *)
(* accelerometer and gyroscope keys (ok) and the magnetometer keys (mag).   *)

SpectralThreshold == 32

Axes == {"x", "y", "z"}

StatNames ==
    {"mean", "std", "min", "max", "range", "skew", "kurtosis", "rms", "zcr",
     "peak_count", "peak_freq"}

MagnitudeNames == {"mean", "std", "min", "max", "range"}

SpectralNames ==
    {"spectral_centroid", "spectral_rolloff", "spectral_flux",
     "dominant_freq", "dominant_freq_mag"}

\* _extract_frequency_features(data, prefix): the keys it adds
ExtractFrequencyFeatures(prefix) ==
    {<<prefix, axis, name>> : axis \in Axes, name \in SpectralNames}

\* a faulty variant: the spectral keys are added whatever the window length
ExtractSensorFeatures_AlwaysSpectral(n, prefix) ==
    {<<prefix, axis, name>> : axis \in Axes, name \in StatNames}
        \cup {<<prefix, "mag", name>> : name \in MagnitudeNames}
        \cup ExtractFrequencyFeatures(prefix)

\* _extract_sensor_features(data, prefix) for data of n rows: the keys
ExtractSensorFeatures(n, prefix) ==
    {<<prefix, axis, name>> : axis \in Axes, name \in StatNames}
        \cup {<<prefix, "mag", name>> : name \in MagnitudeNames}
        \cup (IF n >= SpectralThreshold THEN ExtractFrequencyFeatures(prefix)
              ELSE {})

\* _extract_cross_sensor_features and _extract_temporal_features: the keys
CrossSensorFeatures ==
    {<<"accel_gyro", axis, "correlation">> : axis \in Axes}
        \cup {<<"accel_gyro", "", "movement_intensity">>,
              <<"accel_gyro", "", "accel_gyro_ratio">>}

TemporalFeatures ==
    {<<"temporal", "", name>> :
        name \in {"estimated_sampling_rate", "sampling_jitter",
                  "activity_ratio", "rhythm_strength",
                  "primary_rhythm_period"}}

\* extract_features_from_readings(readings): ValueError below 10 readings,
\* KeyError on a reading without the accelerometer or gyroscope keys,
\* otherwise the feature dictionary, given by its keys
ExtractFeaturesFromReadings(window_readings) ==
    LET n == Len(window_readings)
        has_mag == \A i \in 1..n : window_readings[i].mag
    IN  IF n < MinReadings
        THEN [raised |-> "ValueError", features |-> {}]
        ELSE IF \E i \in 1..n : ~window_readings[i].ok
        THEN [raised |-> "KeyError", features |-> {}]
        ELSE [raised |-> "none",
              features |->
                  ExtractSensorFeatures(n, "accel")
                      \cup ExtractSensorFeatures(n, "gyro")
                      \cup (IF has_mag THEN ExtractSensorFeatures(n, "mag")
                            ELSE {})
                      \cup CrossSensorFeatures
                      \cup TemporalFeatures]

\* FeatureExtractor.__init__: hop_size = int(window_size * (1 - overlap)),
\* the overlap given in percent
HopSize(size, overlap) == (size * (100 - overlap)) \div 100

\* a faulty variant: the first window that raises ends the loop
RECURSIVE WindowsFrom_StopsAtError(_, _, _, _)
WindowsFrom_StopsAtError(reading_dicts, start_idx, size, hop_size) ==
    IF start_idx > Len(reading_dicts) - size
    THEN <<>>
    ELSE LET end_idx == start_idx + size
             window_readings == SubSeq(reading_dicts, start_idx + 1, end_idx)
             extracted == ExtractFeaturesFromReadings(window_readings)
         IN  IF extracted.raised = "none"
             THEN <<[features |-> extracted.features,
                     window_start_idx |-> start_idx,
                     window_end_idx |-> end_idx - 1,
                     window_size |-> Len(window_readings)]>>
                  \o WindowsFrom_StopsAtError(reading_dicts, start_idx + hop_size,
                                              size, hop_size)
             ELSE <<>>

\* the loop of create_windows_from_readings from start_idx on
RECURSIVE WindowsFrom(_, _, _, _)
WindowsFrom(reading_dicts, start_idx, size, hop_size) ==
    IF start_idx > Len(reading_dicts) - size
    THEN <<>>
    ELSE LET end_idx == start_idx + size
             window_readings == SubSeq(reading_dicts, start_idx + 1, end_idx)
             extracted == ExtractFeaturesFromReadings(window_readings)
             rest == WindowsFrom(reading_dicts, start_idx + hop_size, size,
                                 hop_size)
         IN  IF extracted.raised = "none"
             THEN <<[features |-> extracted.features,
                     window_start_idx |-> start_idx,
                     window_end_idx |-> end_idx - 1,
                     window_size |-> Len(window_readings)]>> \o rest
             ELSE rest

\* the windows the loop of create_windows_from_readings appends
SlideWindows(reading_dicts, size, hop_size) ==
    WindowsFrom(reading_dicts, 0, size, hop_size)

\* create_windows_from_readings(readings): range() raises ValueError on a
\* step of 0, outside the try of the loop body
CreateWindowsFromReadings(reading_dicts, size, overlap) ==
    LET hop_size == HopSize(size, overlap)
    IN  IF Len(reading_dicts) < size
        THEN [raised |-> "none", windows |-> <<>>]
        ELSE IF hop_size = 0
        THEN [raised |-> "ValueError", windows |-> <<>>]
        ELSE [raised |-> "none",
              windows |-> SlideWindows(reading_dicts, size, hop_size)]

\* the inputs of the feature extractor: window sizes around the minimum of
\* extraction, overlaps whose hop is exact in binary floating point
WindowSizes == {9, 10, 12}
Overlaps == {0, 50, 75, 100}

\* n readings, all with the accelerometer and gyroscope keys, the first
\* with_mag of them with the magnetometer keys
ReadingDicts(n, with_mag) == [i \in 1..n |-> [ok |-> TRUE, mag |-> i <= with_mag]]

\* n readings with the magnetometer keys, those at the positions of bad
\* without the accelerometer keys
ListedReadings(n, bad) == [i \in 1..n |-> [ok |-> i \notin bad, mag |-> TRUE]]

InitFeatures ==
    /\ InitTables
    /\ active_workouts = EmptyDict
    /\ rep_engines = EmptyDict
    /\ gen = [calls |-> 0]

\* a call of extract_features_from_readings
ExtractFeatures(n, with_mag) ==
    /\ last.op = "none"
    /\ last' = [op |-> "extract_features_from_readings",
                n |-> n,
                with_mag |-> with_mag,
                result |-> ExtractFeaturesFromReadings(
                               ReadingDicts(n, with_mag))]
    /\ gen' = [calls |-> gen.calls + 1]
    /\ UNCHANGED <<now, dbVars, mgrVars, sink, phase_trace, fired, infVars,
                   wsVars>>

\* a call of create_windows_from_readings on an extractor built with the
\* given window size and overlap
CreateWindows(n, bad, size, overlap) ==
    /\ last.op = "none"
    /\ last' = [op |-> "create_windows_from_readings",
                n |-> n,
                bad |-> bad,
                size |-> size,
                hop_size |-> HopSize(size, overlap),
                result |-> CreateWindowsFromReadings(ListedReadings(n, bad),
                                                     size, overlap)]
    /\ gen' = [calls |-> gen.calls + 1]
    /\ UNCHANGED <<now, dbVars, mgrVars, sink, phase_trace, fired, infVars,
                   wsVars>>

NextFeatures ==
    \/ \E n \in 0..MaxWindow, with_mag \in 0..MaxWindow :
          /\ with_mag \in {0, n - 1, n}
          /\ ExtractFeatures(n, with_mag)
    \/ \E n \in 0..MaxListed, size \in WindowSizes, overlap \in Overlaps :
          \E bad \in {{}} \cup {{i} : i \in 1..n} :
              CreateWindows(n, bad, size, overlap)

SpecFeatures == InitFeatures /\ [][NextFeatures]_vars

Extracted == last.op = "extract_features_from_readings"

\* the channels every reading of the window carries
ChannelsPresent == {"accel", "gyro"} \cup (IF last.with_mag = last.n THEN {"mag"} ELSE {})

\* C23: extraction on fewer than 10 readings raises the error of a window
\* that is too short; on 10 to 31 readings it succeeds and no key of the
\* result is a spectral one; on 32 or more it succeeds and the result has
\* the five spectral keys for every axis of every channel the readings carry.
C23_SpectralKeysFromThirtyTwo ==
    Extracted =>
        /\ last.n < 10 => last.result.raised = "ValueError"
        /\ (last.n >= 10 /\ last.n < 32) =>
               /\ last.result.raised = "none"
               /\ \A key \in last.result.features : key[3] \notin SpectralNames
        /\ last.n >= 32 =>
               /\ last.result.raised = "none"
               /\ \A prefix \in ChannelsPresent, axis \in Axes, name \in SpectralNames :
                      <<prefix, axis, name>> \in last.result.features

C23_Witness ==
    /\ Extracted
    /\ last.n = 32
    /\ last.with_mag = 32
    /\ last.result.raised = "none"
    /\ <<"mag", "z", "spectral_flux">> \in last.result.features

Windowed == last.op = "create_windows_from_readings"

\* whether extraction succeeds on the window that starts at start_idx
WindowExtracts(start_idx) ==
    /\ last.size >= 10
    /\ \A i \in last.bad : ~(i >= start_idx + 1 /\ i <= start_idx + last.size)

\* the windows the statement lists: one per start 0, H, 2H, ... up to
\* N - W whose extraction succeeds, in that order
ListedWindows ==
    LET count == (last.n - last.size) \div last.hop_size + 1
        starts == [k \in 1..count |-> (k - 1) * last.hop_size]
        kept == SelectSeq(starts, WindowExtracts)
    IN  [k \in 1..Len(kept) |->
            [window_start_idx |-> kept[k],
             window_end_idx |-> kept[k] + last.size - 1,
             window_size |-> last.size]]

\* the index fields of the windows returned
ReturnedWindows ==
    [k \in 1..Len(last.result.windows) |->
        [window_start_idx |-> last.result.windows[k].window_start_idx,
         window_end_idx |-> last.result.windows[k].window_end_idx,
         window_size |-> last.result.windows[k].window_size]]

\* C24 as stated: for every N, W and H = int(W * (1 - overlap)) the call
\* returns a list, empty when N < W and otherwise the listed windows.
C24_AsStated ==
    Windowed =>
        /\ last.result.raised = "none"
        /\ last.n < last.size => last.result.windows = <<>>
        /\ (last.n >= last.size /\ last.hop_size >= 1) =>
               ReturnedWindows = ListedWindows

\* C24: with N < W the call returns the empty list; with N >= W and a hop
\* of at least 1 it returns, in order, one window per start 0, H, 2H, ...
\* up to N - W whose extraction does not raise, each with window_start_idx
\* the start, window_end_idx the start + W - 1 and window_size W; with
\* N >= W and a hop of 0 it raises ValueError and returns nothing.
C24_WindowsAtEveryHop ==
    Windowed =>
        /\ last.n < last.size =>
               /\ last.result.raised = "none"
               /\ last.result.windows = <<>>
        /\ (last.n >= last.size /\ last.hop_size >= 1) =>
               /\ last.result.raised = "none"
               /\ ReturnedWindows = ListedWindows
        /\ (last.n >= last.size /\ last.hop_size = 0) =>
               last.result.raised = "ValueError"

C24_Witness ==
    /\ Windowed
    /\ last.n = 20
    /\ last.size = 10
    /\ last.hop_size = 5
    /\ last.bad = {8}
    /\ Len(last.result.windows) = 1
    /\ last.result.windows[1].window_start_idx = 10

-----------------------------------------------------------------------------
(* _handle_rep_detected on its own: a workout started by the first          *)
(* start_workout, then accepted candidates handed to the handler, their     *)
(* motion quality drawn from both sides of the form threshold.  (The        *)
(* candidates RepStateMachine.update builds have a quality of 0.8 or more.) *)

Qualities == {800, 1199, 1200, 1600}
HandledDuration == 20

\* RepCandidate(start_time, end_time, duration, confidence, motion_quality,
\* detection_method, ...) as the state machine builds it from motion alone
RepCandidate(start_time, duration, motion_quality) ==
    [kind |-> "rep",
     start_time |-> start_time,
     end_time |-> start_time + duration,
     confidence |-> MotionCycleConfidence,
     motion_quality |-> motion_quality,
     duration |-> duration,
     detection_method |-> CandidateMethod(TRUE, FALSE),
     motion_complete |-> TRUE,
     ml_complete |-> FALSE]

\* _handle_rep_detected(db, workout, rep_candidate) followed by the commit
\* of process_rep_detection, on the active workout of the device
HandleRep(device_id, motion_quality) ==
    LET id == active_workouts[device_id]
        c == RepCandidate(now, HandledDuration, motion_quality)
    IN  /\ device_id \in DOMAIN active_workouts
        /\ id \in SessionIds
        /\ sessions[id].status = "active"
        /\ id \in DOMAIN session_stats
        /\ gen.calls < MaxHandled
        /\ gen' = [gen EXCEPT !.calls = @ + 1]
        /\ Becomes(HandleRepDetected(World, id, c, now))
        /\ last' = [op |-> "handle_rep_detected", device_id |-> device_id,
                    workout_id |-> id, candidate |-> c]
        /\ UNCHANGED <<infVars, wsVars, now, readings, phase_trace, fired>>

NextForm ==
    \/ \E target_sets \in TargetSets, target_reps \in TargetReps :
          /\ sessions = <<>>
          /\ StartWorkout(TestDevice, "bicep_curl", target_sets, target_reps)
    \/ \E motion_quality \in Qualities : HandleRep(TestDevice, motion_quality)

SpecForm == Init /\ [][NextForm]_vars

\* the form warnings among the notifications pushed so far
FormWarnings(pushed) == SelectSeq(pushed, LAMBDA msg : msg.type = "form_warning")

HandleStep == last'.op = "handle_rep_detected" /\ gen'.calls = gen.calls + 1

\* C25: handling an accepted rep pushes a form warning exactly when the
\* rep's motion quality is below 0.6; such a rep pushes one warning, for its
\* device and with its quality, and adds one to the form_warnings of the
\* session's statistics; any other rep pushes none and leaves the count.
C25_WarningIffLowQuality ==
    [][HandleStep =>
        LET c == last'.candidate
            id == last'.workout_id
            low == c.motion_quality < 1200
            added == Len(FormWarnings(sink')) - Len(FormWarnings(sink))
            warnings == FormWarnings(sink')
        IN  /\ low <=> added >= 1
            /\ low => /\ added = 1
                      /\ warnings[Len(warnings)].device_id = last'.device_id
                      /\ warnings[Len(warnings)].motion_quality = c.motion_quality
                      /\ session_stats'[id].form_warnings = session_stats[id].form_warnings + 1
            /\ ~low => session_stats'[id].form_warnings = session_stats[id].form_warnings]_vars

C25_Witness ==
    /\ last.op = "handle_rep_detected"
    /\ last.candidate.motion_quality = 1199
    /\ Len(FormWarnings(sink)) = 2
    /\ last.workout_id \in DOMAIN session_stats
    /\ session_stats[last.workout_id].form_warnings = 2
    /\ session_stats[last.workout_id].total_reps = 3

-----------------------------------------------------------------------------
(* The ingestion route with and without an active workout *)

\* C26: a sample submitted through the ingestion route is answered with
\* success, stored and appended to the device's inference buffer, whether or
\* not the device has an active workout session.
C26_SubmissionSucceeds ==
    [][ReceiveStep =>
        LET d == last'.device_id
        IN  /\ last'.status_code = 200
            /\ last'.raised = "none"
            /\ readings'[d] = readings[d] + 1
            /\ inference_engine' =
                   BufferSensorData(inference_engine, d,
                                    SensorDict(readings[d] + 1))]_vars

-----------------------------------------------------------------------------
(* The lifecycle routes *)

\* a step that is one request of the named route
RouteStep(op) == last'.op = op /\ last' # last

\* the request is answered as one made in the status from makes it: not
\* found for an unknown id, success and the status to when the session's
\* status is from, an error and the status unchanged otherwise
Answered(from, to) ==
    LET id == last'.workout_id
    IN  IF id \notin SessionIds
        THEN last'.status_code = 404 /\ sessions' = sessions
        ELSE IF sessions[id].status = from
        THEN /\ last'.status_code = 200
             /\ sessions'[id].status = to
        ELSE /\ last'.status_code \notin {200, 404}
             /\ sessions' = sessions

\* C27: a start creates the session active at set 1 with 0 reps; pause
\* succeeds on an active session and makes it paused, resume succeeds on a
\* paused session and makes it active, complete succeeds on an active session
\* and makes it completed; the same requests in any other status are refused
\* with an error and leave the status unchanged, and on an unknown id they
\* are refused as not found.
C27_LifecycleTransitions ==
    [][/\ Len(sessions') = Len(sessions) + 1 =>
              LET workout == sessions'[Len(sessions')]
              IN  /\ workout.status = "active"
                  /\ workout.current_set = 1
                  /\ workout.current_reps = 0
       /\ RouteStep("pause_workout") => Answered("active", "paused")
       /\ RouteStep("resume_workout") => Answered("paused", "active")
       /\ RouteStep("complete_workout") => Answered("active", "completed")]_vars

-----------------------------------------------------------------------------
(* The engine after a candidate, accepted or rejected *)

\* the previous call built a candidate
BuiltBefore == last.op = "process_rep_detection" /\ last.candidate # NoCandidate

\* C28: after every call in which the state machine builds a candidate the
\* machine is waiting with no start time, whether the validator accepted the
\* candidate or not; a rejected candidate is returned to nobody, records
\* nothing, and the call that follows builds no candidate.
C28_WaitingAfterCandidate ==
    [][ProcessStep =>
        LET d == last'.device_id
        IN  /\ (last'.candidate # NoCandidate /\ d \in DOMAIN rep_engines') =>
                   /\ rep_engines'[d].rep_state_machine.current_state = "waiting"
                   /\ rep_engines'[d].rep_state_machine.rep_start_time = NoTime
            /\ (last'.candidate # NoCandidate /\ ~last'.accepted) =>
                   /\ d \in DOMAIN rep_engines'
                   /\ rep_events' = rep_events
                   /\ sink' = sink
                   /\ sessions' = sessions
            /\ BuiltBefore => last'.candidate = NoCandidate]_vars

C28_Witness ==
    /\ last.op = "process_rep_detection"
    /\ last.candidate # NoCandidate
    /\ ~last.accepted
    /\ last.device_id \in DOMAIN rep_engines
    /\ rep_engines[last.device_id].rep_state_machine.current_state = "waiting"
    /\ rep_engines[last.device_id].timing_validator.last_rep_time # NoTime

\* the validator's last accepted timestamp for a device
LastRepTime(engines, d) == engines[d].timing_validator.last_rep_time

\* C29: the last-accepted timestamp of a device's validator changes only in
\* a call whose candidate is accepted, and then becomes the candidate's end
\* time; a rejected candidate, a call without candidate and every other step
\* leave it unchanged; it never moves backwards.
C29_LastRepTimeOnAccept ==
    [][\A d \in DOMAIN rep_engines \cap DOMAIN rep_engines' :
          /\ LastRepTime(rep_engines', d) >= LastRepTime(rep_engines, d)
          /\ IF ProcessStep /\ last'.device_id = d /\ last'.accepted
             THEN LastRepTime(rep_engines', d) = last'.candidate.end_time
             ELSE LastRepTime(rep_engines', d) = LastRepTime(rep_engines, d)]_vars

C29_Witness ==
    /\ last.op = "process_rep_detection"
    /\ last.accepted
    /\ last.device_id \in DOMAIN rep_engines
    /\ LastRepTime(rep_engines, last.device_id) = last.candidate.end_time
    /\ last.candidate.end_time = now
    /\ now > 0

-----------------------------------------------------------------------------
(* Samples for a device whose session is not active.  The status of a       *)
(* session leaves active through PUT /workouts/{id}, which writes the row   *)
(* and tells the manager nothing.                                           *)

Statuses == {"active", "paused", "completed", "cancelled"}

\* PUT /workouts/{workout_id} with a body that gives the status only
UpdateWorkout(id, new_status) ==
    LET call == [op |-> "update_workout", workout_id |-> id]
    IN  IF id \notin SessionIds
        THEN Refused(call, "none", 404)
        ELSE /\ sessions' = [sessions EXCEPT ![id].status = new_status]
             /\ last' = call @@ [device_id |-> sessions[id].device_id,
                                 status_code |-> 200]
             /\ UNCHANGED <<infVars, wsVars, now, rep_events, rep_patterns, readings,
                            mgrVars, sink, histVars>>

\* process_rep_detection called with a sample of any device: the early
\* returns of the method, or the engine and the handler
ProcessRepDetectionCall(device_id, ml_prediction) ==
    IF Tracked(device_id)
    THEN ProcessRepDetection(device_id, ml_prediction)
    ELSE /\ gen.calls < MaxCalls
         /\ gen' = [gen EXCEPT !.calls = @ + 1]
         /\ last' = [op |-> "process_rep_detection", device_id |-> device_id,
                     workout_id |-> IF device_id \in DOMAIN active_workouts
                                    THEN active_workouts[device_id] ELSE 0,
                     candidate |-> NoCandidate,
                     accepted |-> FALSE,
                     raised |-> "none",
                     fed |-> FALSE]
         /\ UNCHANGED <<infVars, wsVars, now, dbVars, mgrVars, sink, phase_trace,
                        fired>>

NextInactive ==
    \/ StartWorkout(TestDevice, "bicep_curl", MaxSets, MaxReps)
    \/ RouterStartWorkout(TestDevice, "bicep_curl", MaxSets, MaxReps)
    \/ \E id \in WorkoutIds, new_status \in Statuses :
          UpdateWorkout(id, new_status)
    \/ \E d \in Devices, ml \in MlPredictions \cup {NoPrediction} :
          /\ gen.calls < MaxInactiveCalls
          /\ ProcessRepDetectionCall(d, ml)
    \/ EndWorkout(TestDevice)

SpecInactive == Init /\ [][NextInactive]_vars

\* the device has sessions and none of them is active
InactiveDevice(device_id) ==
    /\ \E id \in SessionIds : sessions[id].device_id = device_id
    /\ \A id \in SessionIds :
          sessions[id].device_id = device_id => sessions[id].status # "active"

\* C30: a sample that arrives for a device whose session is not active
\* records no RepEvent, pushes no notification, leaves the sessions with
\* their current_set and current_reps, and does not reach the device's
\* engine: the engines, and the statistics, are exactly as before.
C30_InactiveSessionIgnoresSamples ==
    [][(ProcessStep /\ InactiveDevice(last'.device_id)) =>
          /\ rep_events' = rep_events
          /\ sink' = sink
          /\ sessions' = sessions
          /\ rep_engines' = rep_engines
          /\ session_stats' = session_stats
          /\ active_workouts' = active_workouts
          /\ rep_patterns' = rep_patterns]_vars

C30_Witness ==
    /\ last.op = "process_rep_detection"
    /\ "fed" \in DOMAIN last
    /\ last.device_id \in DOMAIN active_workouts
    /\ last.workout_id = active_workouts[last.device_id]
    /\ sessions[last.workout_id].status = "paused"
    /\ InactiveDevice(last.device_id)
    /\ last.device_id \in DOMAIN rep_engines
    /\ Len(rep_engines[last.device_id].motion_analyzer.motion_buffer) = 2
    /\ gen.calls = 3

-----------------------------------------------------------------------------
(* A workout that ran to its targets, and the samples that arrive after it. *)
(* One workout is started and fed; once it has completed the device keeps   *)
(* sending samples, and a second workout may be started for it.             *)

\* the first workout has completed and no second one was started
FirstCompleted == Len(sessions) = 1 /\ sessions[1].status = "completed"

NextTerminal ==
    \/ Tick
    \/ \E target_sets \in TargetSets, target_reps \in TargetReps :
          /\ sessions = <<>>
          /\ StartWorkout(TestDevice, "bicep_curl", target_sets, target_reps)
    \/ /\ FirstCompleted
       /\ StartWorkout(TestDevice, "bicep_curl", 1, 1)
    \/ /\ FirstCompleted
       /\ RouterStartWorkout(TestDevice, "bicep_curl", 1, 1)
    \/ \E ml \in MlPredictions :
          /\ sessions # <<>>
          /\ ProcessRepDetectionCall(TestDevice, ml)

SpecTerminal == Init /\ [][NextTerminal]_vars

\* the rows of rep_events that belong to session id
RowsOf(rows, id) == SelectSeq(rows, LAMBDA e : e.workout_session_id = id)

\* no workout was started after session id
Latest(id) == id = Len(sessions')

\* C31: a workout that completed by reaching its targets is terminal.  From
\* then on no step adds an event row for the session or changes its row, and
\* until a new workout is started no notification is pushed; while the
\* completed workout is the device's latest the manager tracks no workout
\* and holds no engine for the device.
C31_CompletedIsTerminal ==
    /\ [](\A id \in SessionIds :
             (sessions[id].status = "completed" /\ id = Len(sessions)) =>
                 /\ sessions[id].device_id \notin DOMAIN active_workouts
                 /\ sessions[id].device_id \notin DOMAIN rep_engines)
    /\ [][\A id \in SessionIds :
             sessions[id].status = "completed" =>
                 /\ sessions'[id] = sessions[id]
                 /\ RowsOf(rep_events', id) = RowsOf(rep_events, id)
                 /\ Latest(id) => sink' = sink]_vars

C31_Witness ==
    /\ FirstCompleted
    /\ sessions[1].target_sets = 1
    /\ sessions[1].target_reps_per_set = 2
    /\ last.op = "process_rep_detection"
    /\ "fed" \in DOMAIN last
    /\ PushedFor(TestDevice)[Len(PushedFor(TestDevice))] = "workout_completed"
    /\ TestDevice \notin DOMAIN rep_engines

-----------------------------------------------------------------------------
(* ConnectionManager (app/websocket/manager.py): the connections the server *)
(* holds for each device and the messages it keeps for devices without one. *)
(* websockets maps each WebSocket the endpoint was handed to the texts it    *)
(* was sent, whether its peer is still there, and where its endpoint is.     *)

WebSockets == {"w1", "w2"}

\* the length a device's queue is cut back to
MaxQueueLength == 50

\* messages sent in a run with two devices and two connections
MaxMessages == 4

\* messages sent in a run that fills a queue beyond its limit
MaxSent == 52

\* the n-th message handed to send_to_device
Message(n) == [type |-> "workout_status", id |-> n]

\* json.dumps(message): the text that travels on the connection
JsonDumps(message) == [text |-> message]

\* a read that leaves a mapping alone: f.get(k, default)
DictGet(f, k, default) == IF k \in DOMAIN f THEN f[k] ELSE default

\* the texts of a list of messages
Texts(messages) == [i \in 1..Len(messages) |-> JsonDumps(messages[i])]

\* websocket.send_text(text) on a connection whose peer is there
SendText(socks, websocket, text) ==
    [socks EXCEPT ![websocket].texts = Append(@, text)]

\* a faulty variant: one connection only is sent the text
SendToAll_OnlyOne(socks, connections, text) ==
    IF connections = {}
    THEN socks
    ELSE SendText(socks, CHOOSE w \in connections : TRUE, text)

\* the loop of send_to_device over the connections whose send_text succeeds
SendToAll(socks, connections, text) ==
    [w \in DOMAIN socks |->
        IF w \in connections
        THEN [socks[w] EXCEPT !.texts = Append(@, text)]
        ELSE socks[w]]

\* a faulty variant: the first 50 messages are kept
Enqueue_KeepsOldest(queue, message) ==
    IF Len(queue) + 1 > MaxQueueLength
    THEN SubSeq(Append(queue, message), 1, MaxQueueLength)
    ELSE Append(queue, message)

\* message_queue[device_id].append(message), cut back to the last 50
Enqueue(queue, message) ==
    LET appended == Append(queue, message)
    IN  IF Len(appended) > MaxQueueLength
        THEN SubSeq(appended, Len(appended) - MaxQueueLength + 1,
                    Len(appended))
        ELSE appended

\* disconnect(device_id_or_websocket): all connections of a device when
\* handed a device id, one connection when handed a WebSocket
Disconnect(mgr, device_id_or_websocket) ==
    IF device_id_or_websocket \in Devices
    THEN IF device_id_or_websocket \in DOMAIN mgr.active_connections
         THEN LET connections_to_close ==
                      mgr.active_connections[device_id_or_websocket]
              IN  [mgr EXCEPT
                      !.connection_metadata =
                          [w \in (DOMAIN mgr.connection_metadata)
                                     \ connections_to_close |->
                              mgr.connection_metadata[w]],
                      !.active_connections =
                          DictDel(mgr.active_connections,
                                  device_id_or_websocket)]
         ELSE mgr
    ELSE IF device_id_or_websocket \in DOMAIN mgr.connection_metadata
         THEN LET device_id ==
                      mgr.connection_metadata[device_id_or_websocket].device_id
                  remaining ==
                      DictGet(mgr.active_connections, device_id, {})
                          \ {device_id_or_websocket}
              IN  [mgr EXCEPT
                      !.active_connections =
                          IF remaining = {}
                          THEN DictDel(mgr.active_connections, device_id)
                          ELSE DictSet(mgr.active_connections, device_id,
                                       remaining),
                      !.connection_metadata =
                          DictDel(mgr.connection_metadata,
                                  device_id_or_websocket)]
         ELSE mgr

\* connect, after accept returned: the connection and its metadata are kept
Accepted(mgr, websocket, device_id) ==
    [mgr EXCEPT
        !.active_connections =
            DictSet(mgr.active_connections, device_id,
                    DictGet(mgr.active_connections, device_id, {})
                        \cup {websocket}),
        !.connection_metadata =
            DictSet(mgr.connection_metadata, websocket,
                    [device_id |-> device_id])]

\* send_to_device(device_id, message) run to its end.  A send_text on a
\* connection whose peer went away raises; the connection is then handed to
\* disconnect, which is not a coroutine, so that awaiting what it returns
\* raises TypeError after the first such connection was removed.
SendToDevice(device_id, message) ==
    LET mgr == websocket_manager
        message_text == JsonDumps(message)
    IN  /\ gen' = [gen EXCEPT !.calls = @ + 1]
        /\ IF device_id \in DOMAIN mgr.active_connections
           THEN LET copy == mgr.active_connections[device_id]
                    disconnected_websockets ==
                        {w \in copy : ~websockets[w].open}
                IN  /\ websockets' =
                           SendToAll(websockets,
                                     copy \ disconnected_websockets,
                                     message_text)
                    /\ IF disconnected_websockets = {}
                       THEN /\ websocket_manager' = mgr
                            /\ last' = [op |-> "send_to_device",
                                        device_id |-> device_id,
                                        message |-> message,
                                        raised |-> "none"]
                       ELSE \E w \in disconnected_websockets :
                               /\ websocket_manager' = Disconnect(mgr, w)
                               /\ last' = [op |-> "send_to_device",
                                           device_id |-> device_id,
                                           message |-> message,
                                           raised |-> "TypeError"]
           ELSE /\ websocket_manager' =
                       [mgr EXCEPT !.message_queue =
                           DictSet(mgr.message_queue, device_id,
                                   Enqueue(DictGet(mgr.message_queue,
                                                   device_id, <<>>),
                                           message))]
                /\ websockets' = websockets
                /\ last' = [op |-> "send_to_device",
                            device_id |-> device_id,
                            message |-> message,
                            raised |-> "none"]
        /\ UNCHANGED <<now, dbVars, mgrVars, sink, phase_trace, fired,
                       infVars>>

\* connect(websocket, device_id) run to its end.  The peer takes the first
\* `delivered` queued messages; when it goes away before the last one the
\* send_text raises, the connection is removed again, TypeError leaves
\* connect and the endpoint, and the queue stays as it was.
Connect(websocket, device_id, delivered) ==
    LET mgr == websocket_manager
        accepted == Accepted(mgr, websocket, device_id)
        queued == DictGet(mgr.message_queue, device_id, <<>>)
    IN  /\ websocket \notin DOMAIN websockets
        /\ delivered \in 0..Len(queued)
        /\ IF delivered < Len(queued)
           THEN /\ websocket_manager' = Disconnect(accepted, websocket)
                /\ websockets' =
                       DictSet(websockets, websocket,
                               [open |-> FALSE,
                                texts |-> Texts(SubSeq(queued, 1, delivered)),
                                endpoint |-> "raised"])
                /\ last' = [op |-> "connect",
                            websocket |-> websocket,
                            device_id |-> device_id,
                            raised |-> "TypeError"]
           ELSE /\ websocket_manager' =
                       [accepted EXCEPT !.message_queue =
                           DictDel(mgr.message_queue, device_id)]
                /\ websockets' =
                       DictSet(websockets, websocket,
                               [open |-> TRUE,
                                texts |-> Texts(queued),
                                endpoint |-> "running"])
                /\ last' = [op |-> "connect",
                            websocket |-> websocket,
                            device_id |-> device_id,
                            raised |-> "none"]
        /\ UNCHANGED <<now, dbVars, mgrVars, sink, phase_trace, fired,
                       infVars, gen>>

\* the peer of a connection goes away
Close(websocket) ==
    /\ websocket \in DOMAIN websockets
    /\ websockets[websocket].open
    /\ websockets' = [websockets EXCEPT ![websocket].open = FALSE]
    /\ last' = [op |-> "close", websocket |-> websocket]
    /\ UNCHANGED <<now, dbVars, mgrVars, sink, phase_trace, fired, infVars,
                   gen, websocket_manager>>

\* websocket_endpoint: receive_text raises once the peer is gone and the
\* endpoint hands its connection to disconnect
EndpointDisconnect(websocket) ==
    /\ websocket \in DOMAIN websockets
    /\ ~websockets[websocket].open
    /\ websockets[websocket].endpoint = "running"
    /\ websocket_manager' = Disconnect(websocket_manager, websocket)
    /\ websockets' = [websockets EXCEPT ![websocket].endpoint = "ended"]
    /\ last' = [op |-> "disconnect", websocket |-> websocket]
    /\ UNCHANGED <<now, dbVars, mgrVars, sink, phase_trace, fired, infVars,
                   gen>>

InitSocket ==
    /\ InitTables
    /\ active_workouts = EmptyDict
    /\ rep_engines = EmptyDict
    /\ gen = [calls |-> 0]

NextSocket ==
    \/ \E device_id \in Devices :
          /\ gen.calls < MaxMessages
          /\ SendToDevice(device_id, Message(gen.calls + 1))
    \/ \E websocket \in WebSockets, device_id \in Devices,
          delivered \in 0..MaxMessages :
          Connect(websocket, device_id, delivered)
    \/ \E websocket \in WebSockets : Close(websocket)
    \/ \E websocket \in WebSockets : EndpointDisconnect(websocket)

SpecSocket == InitSocket /\ [][NextSocket]_vars

\* the connections the manager holds for a device
Registered(device_id) ==
    DictGet(websocket_manager.active_connections, device_id, {})

\* the messages a manager keeps for a device
Queued(mgr, device_id) == DictGet(mgr.message_queue, device_id, <<>>)

\* the texts a connection was sent, as a set
TextsOf(socks, w) == {socks[w].texts[i] : i \in 1..Len(socks[w].texts)}

\* C32: a message sent to a device the manager holds no connection for is
\* appended to the device's queue and reaches no connection; a message sent
\* to a device with connections is sent to each of them whose peer is there
\* and leaves every queue alone.  A connect that returns sent its connection
\* exactly the queued messages, in queue order, and left the device without
\* a queue; none of those messages had reached a connection that was
\* established before.
C32_QueuedOrSentThenReplayed ==
    /\ [][\A device_id \in Devices :
             (/\ last'.op = "send_to_device"
              /\ gen' # gen
              /\ last'.device_id = device_id) =>
                 IF Registered(device_id) = {}
                 THEN /\ Queued(websocket_manager', device_id) =
                             LastN(Append(Queued(websocket_manager,
                                                 device_id),
                                          last'.message), MaxQueueLength)
                      /\ websockets' = websockets
                 ELSE /\ \A w \in Registered(device_id) :
                             websockets[w].open =>
                                 websockets'[w].texts =
                                     Append(websockets[w].texts,
                                            JsonDumps(last'.message))
                      /\ websocket_manager'.message_queue =
                             websocket_manager.message_queue]_vars
    /\ [][\A w \in WebSockets :
             (/\ w \notin DOMAIN websockets
              /\ w \in DOMAIN websockets'
              /\ last'.raised = "none") =>
                 LET queued == Queued(websocket_manager, last'.device_id)
                 IN  /\ websockets'[w].texts = Texts(queued)
                     /\ last'.device_id \notin
                            DOMAIN websocket_manager'.message_queue
                     /\ \A earlier \in DOMAIN websockets :
                            websockets[earlier].endpoint # "raised" =>
                                TextsOf(websockets, earlier)
                                    \cap TextsOf(websockets', w) = {}]_vars

\* the second connection of a device was sent the two messages queued after
\* the first connection, which had been sent the two queued before it
C32_Witness ==
    /\ last.op = "connect"
    /\ last.raised = "none"
    /\ last.websocket = "w2"
    /\ "w1" \in DOMAIN websockets
    /\ websockets["w1"].texts = Texts(<<Message(1), Message(2)>>)
    /\ websockets["w1"].endpoint = "ended"
    /\ websockets["w2"].texts = Texts(<<Message(3), Message(4)>>)
    /\ TestDevice \notin DOMAIN websocket_manager.message_queue

-----------------------------------------------------------------------------
(* One device, one connection, and more messages than a queue may hold. *)

NextQueue ==
    \/ /\ gen.calls < MaxSent
       /\ SendToDevice(TestDevice, Message(gen.calls + 1))
    \/ \E delivered \in 0..MaxQueueLength :
          Connect("w1", TestDevice, delivered)
    \/ Close("w1")
    \/ EndpointDisconnect("w1")

SpecQueue == InitSocket /\ [][NextQueue]_vars

\* C33: a queue never holds more than 50 messages, and it holds the messages
\* sent last, oldest first: its k messages are the k most recent ones handed
\* to send_to_device for the device, in the order they were handed over.
C33_QueueHoldsLastFifty ==
    \A device_id \in DOMAIN websocket_manager.message_queue :
        LET queue == websocket_manager.message_queue[device_id]
        IN  /\ Len(queue) <= MaxQueueLength
            /\ \A i \in 1..Len(queue) :
                   queue[i] = Message(gen.calls - Len(queue) + i)

\* fifty-two messages were sent to a device without a connection: the queue
\* holds the third to the fifty-second
C33_Witness ==
    /\ gen.calls = MaxQueueLength + 2
    /\ TestDevice \in DOMAIN websocket_manager.message_queue
    /\ Len(websocket_manager.message_queue[TestDevice]) = MaxQueueLength
    /\ websocket_manager.message_queue[TestDevice][1] = Message(3)
    /\ websockets = EmptyDict

-----------------------------------------------------------------------------
(* connect and send_to_device as coroutines of one event loop.  A coroutine *)
(* runs alone from one await to the next: accept and every send_text hand    *)
(* control back to the loop, which may resume any other coroutine.  Peers    *)
(* stay, so that every send_text succeeds.  threads holds the coroutines in  *)
(* flight, connects by their WebSocket and sends by the id of their message. *)

\* messages sent while connections are being established
MaxOverlapSent == 3

NoTasks == [connects |-> EmptyDict, sends |-> EmptyDict]

InitConnect ==
    /\ now = 0
    /\ sessions = <<>>
    /\ rep_events = <<>>
    /\ rep_patterns = [k \in Devices \X Exercises |-> NoPattern]
    /\ active_workouts = EmptyDict
    /\ rep_engines = EmptyDict
    /\ session_stats = EmptyDict
    /\ sink = <<>>
    /\ last = NoCall
    /\ readings = [d \in Devices |-> 0]
    /\ phase_trace = <<>>
    /\ fired = 0
    /\ gen = [calls |-> 0]
    /\ inference_engine = RealTimeInference(DefaultBufferSize)
    /\ threads = NoTasks
    /\ websocket_manager = ConnectionManager
    /\ websockets = EmptyDict

\* websocket_endpoint is handed a WebSocket and calls connect, which waits
\* in websocket.accept()
BeginConnect(websocket, device_id) ==
    /\ websocket \notin DOMAIN websockets
    /\ websockets' = DictSet(websockets, websocket,
                             [open |-> TRUE,
                              texts |-> <<>>,
                              endpoint |-> "connecting"])
    /\ threads' = [threads EXCEPT !.connects =
                      DictSet(@, websocket,
                              [device_id |-> device_id,
                               pc |-> "accept",
                               messages |-> <<>>,
                               i |-> 1])]
    /\ last' = [op |-> "connect",
                websocket |-> websocket,
                device_id |-> device_id,
                raised |-> "none"]
    /\ UNCHANGED <<now, dbVars, mgrVars, sink, phase_trace, fired, gen,
                   inference_engine, websocket_manager>>

\* connect from the head of its loop: the next queued message is handed to
\* send_text, or the loop is over and the device's queue is deleted, which
\* raises KeyError when the queue is no longer there
ReplayNext(mgr, websocket, task) ==
    IF task.i <= Len(task.messages)
    THEN /\ websocket_manager' = mgr
         /\ websockets' = SendText(websockets, websocket,
                                   JsonDumps(task.messages[task.i]))
         /\ threads' = [threads EXCEPT !.connects[websocket] =
                           [task EXCEPT !.pc = "replay", !.i = @ + 1]]
         /\ last' = [op |-> "connect",
                     websocket |-> websocket,
                     device_id |-> task.device_id,
                     raised |-> "none"]
    ELSE /\ threads' = [threads EXCEPT !.connects = DictDel(@, websocket)]
         /\ IF task.device_id \in DOMAIN mgr.message_queue
            THEN /\ websocket_manager' =
                        [mgr EXCEPT !.message_queue =
                            DictDel(mgr.message_queue, task.device_id)]
                 /\ websockets' =
                        [websockets EXCEPT ![websocket].endpoint = "running"]
                 /\ last' = [op |-> "connect",
                             websocket |-> websocket,
                             device_id |-> task.device_id,
                             raised |-> "none"]
            ELSE /\ websocket_manager' = mgr
                 /\ websockets' =
                        [websockets EXCEPT ![websocket].endpoint = "raised"]
                 /\ last' = [op |-> "connect",
                             websocket |-> websocket,
                             device_id |-> task.device_id,
                             raised |-> "KeyError"]

\* connect resumed by the event loop: after accept the connection and its
\* metadata are kept and the replay of the queue found at that moment
\* starts; after a send_text the replay goes on
ConnectStep(websocket) ==
    /\ websocket \in DOMAIN threads.connects
    /\ LET task == threads.connects[websocket]
           mgr == websocket_manager
           accepted == Accepted(mgr, websocket, task.device_id)
       IN  IF task.pc = "accept"
           THEN IF task.device_id \in DOMAIN mgr.message_queue
                THEN ReplayNext(accepted, websocket,
                                [task EXCEPT
                                    !.messages =
                                        mgr.message_queue[task.device_id]])
                ELSE /\ websocket_manager' = accepted
                     /\ websockets' =
                            [websockets EXCEPT
                                ![websocket].endpoint = "running"]
                     /\ threads' = [threads EXCEPT !.connects =
                                       DictDel(@, websocket)]
                     /\ last' = [op |-> "connect",
                                 websocket |-> websocket,
                                 device_id |-> task.device_id,
                                 raised |-> "none"]
           ELSE ReplayNext(mgr, websocket, task)
    /\ UNCHANGED <<now, dbVars, mgrVars, sink, phase_trace, fired, gen,
                   inference_engine>>

\* send_to_device up to its first await: the message is queued, or the
\* connections of the device are copied and the first is handed the text
BeginSend(device_id, message) ==
    LET mgr == websocket_manager
    IN  /\ gen' = [gen EXCEPT !.calls = @ + 1]
        /\ IF device_id \in DOMAIN mgr.active_connections
           THEN \E w \in mgr.active_connections[device_id] :
                   /\ websockets' =
                          SendText(websockets, w, JsonDumps(message))
                   /\ threads' = [threads EXCEPT !.sends =
                          DictSet(@, message.id,
                                  [device_id |-> device_id,
                                   message |-> message,
                                   pending |->
                                       mgr.active_connections[device_id]
                                           \ {w}])]
                   /\ websocket_manager' = mgr
           ELSE /\ websocket_manager' =
                       [mgr EXCEPT !.message_queue =
                           DictSet(mgr.message_queue, device_id,
                                   Enqueue(DictGet(mgr.message_queue,
                                                   device_id, <<>>),
                                           message))]
                /\ UNCHANGED <<websockets, threads>>
        /\ last' = [op |-> "send_to_device",
                    device_id |-> device_id,
                    message |-> message,
                    raised |-> "none"]
        /\ UNCHANGED <<now, dbVars, mgrVars, sink, phase_trace, fired,
                       inference_engine>>

\* send_to_device resumed after a send_text: the next connection of its copy
\* is handed the text, or the loop is over and the call returns
SendStep(id) ==
    /\ id \in DOMAIN threads.sends
    /\ LET task == threads.sends[id]
       IN  IF task.pending = {}
           THEN /\ threads' = [threads EXCEPT !.sends = DictDel(@, id)]
                /\ UNCHANGED websockets
           ELSE \E w \in task.pending :
                   /\ websockets' =
                          SendText(websockets, w, JsonDumps(task.message))
                   /\ threads' = [threads EXCEPT !.sends[id].pending =
                                     @ \ {w}]
    /\ last' = [op |-> "send_to_device",
                device_id |-> threads.sends[id].device_id,
                message |-> threads.sends[id].message,
                raised |-> "none"]
    /\ UNCHANGED <<now, dbVars, mgrVars, sink, phase_trace, fired, gen,
                   inference_engine, websocket_manager>>

NextConnect ==
    \/ /\ gen.calls < MaxOverlapSent
       /\ BeginSend(TestDevice, Message(gen.calls + 1))
    \/ \E id \in 1..MaxOverlapSent : SendStep(id)
    \/ \E websocket \in WebSockets : BeginConnect(websocket, TestDevice)
    \/ \E websocket \in WebSockets : ConnectStep(websocket)

SpecConnect == InitConnect /\ [][NextConnect]_vars

\* the ids of the messages a connection was sent, in the order it got them
IdsOf(w) == [i \in 1..Len(websockets[w].texts) |-> websockets[w].texts[i].text.id]

\* the messages a connect in flight has still to hand to its connection
Outstanding(w) ==
    LET task == threads.connects[w]
    IN  {task.messages[i] : i \in task.i..Len(task.messages)}

\* every connection got its messages in the order they were handed over
InSendOrder ==
    \A w \in DOMAIN websockets :
        \A i, j \in 1..Len(websockets[w].texts) :
            i < j => IdsOf(w)[i] < IdsOf(w)[j]

\* every message handed over is in the queue, with a connection, or still
\* to be replayed by a connect in flight
NothingLost ==
    \A id \in 1..gen.calls :
        \/ \E i \in 1..Len(Queued(websocket_manager, TestDevice)) :
              Queued(websocket_manager, TestDevice)[i] = Message(id)
        \/ \E w \in DOMAIN websockets :
              JsonDumps(Message(id)) \in TextsOf(websockets, w)
        \/ \E w \in DOMAIN threads.connects :
              Message(id) \in Outstanding(w)

\* no connect ended in an error
NoConnectRaised ==
    \A w \in DOMAIN websockets : websockets[w].endpoint # "raised"

\* C40: every connection is sent the messages of its device in the order
\* they were handed to send_to_device, also while its connect replays the
\* queue; no queued message is lost; and connects that overlap for one
\* device all return without an error.
C40_InOrderCompleteWithoutError ==
    /\ InSendOrder
    /\ NothingLost
    /\ NoConnectRaised

-----------------------------------------------------------------------------
(* The progress counters of a session.  One workout of 2 sets of 2 reps is  *)
(* started and fed; PUT /workouts/{id} may write its counters, and may set  *)
(* its status back to active once it has completed.                         *)

\* PUT requests that write the counters in one run
MaxUpdates == 1

\* the values a PUT request writes to current_set and current_reps
ProgressValues == {0, 3}

\* PUT /workouts/{id} with current_set and current_reps and no status
UpdateProgress(id, current_set, current_reps) ==
    LET call == [op |-> "update_workout", workout_id |-> id]
    IN  IF id \notin SessionIds
        THEN Refused(call, "none", 404)
        ELSE /\ sessions' = [sessions EXCEPT
                                ![id].current_set = current_set,
                                ![id].current_reps = current_reps]
             /\ gen' = [gen EXCEPT !.updates = @ + 1]
             /\ last' = call @@ [device_id |-> sessions[id].device_id,
                                 status_code |-> 200]
             /\ UNCHANGED <<infVars, wsVars, now, rep_events, rep_patterns,
                            readings, mgrVars, sink, phase_trace, fired>>

InitProgress ==
    /\ InitTables
    /\ active_workouts = EmptyDict
    /\ rep_engines = EmptyDict
    /\ gen = [calls |-> 0, updates |-> 0]

NextProgress ==
    \/ Tick
    \/ /\ sessions = <<>>
       /\ StartWorkout(TestDevice, "bicep_curl", 2, 2)
    \/ \E ml \in MlPredictions :
          /\ sessions # <<>>
          /\ ProcessRepDetectionCall(TestDevice, ml)
    \/ \E current_set \in ProgressValues, current_reps \in ProgressValues :
          /\ sessions # <<>>
          /\ gen.updates < MaxUpdates
          /\ UpdateProgress(1, current_set, current_reps)
    \/ /\ FirstCompleted
       /\ UpdateWorkout(1, "active")

SpecProgress == InitProgress /\ [][NextProgress]_vars

\* the rep_completed rows of session id
RepCompleted(id) ==
    SelectSeq(rep_events, LAMBDA e : /\ e.workout_session_id = id
                                     /\ e.event_type = "rep_completed")

\* C34: the counters of every session stay within its targets, with
\* current_reps below the target while the session is active; every
\* rep_completed row carries a rep number and a set number within the
\* targets, and no two such rows of a session carry the same pair.
C34_ProgressWithinTargets ==
    \A id \in SessionIds :
        LET w == sessions[id]
            rows == RepCompleted(id)
        IN  /\ 1 <= w.current_set /\ w.current_set <= w.target_sets
            /\ 0 <= w.current_reps
            /\ w.current_reps <= w.target_reps_per_set
            /\ w.status = "active" => w.current_reps < w.target_reps_per_set
            /\ \A i \in 1..Len(rows) :
                   /\ 1 <= rows[i].rep_number
                   /\ rows[i].rep_number <= w.target_reps_per_set
                   /\ 1 <= rows[i].set_number
                   /\ rows[i].set_number <= w.target_sets
            /\ \A i, j \in 1..Len(rows) :
                   (/\ rows[i].set_number = rows[j].set_number
                    /\ rows[i].rep_number = rows[j].rep_number) => i = j

-----------------------------------------------------------------------------
(* The pattern a device learns over its workouts.  Each workout is one set  *)
(* of three reps whose candidates were accepted by the validator loaded     *)
(* with the device's row at the start of the workout; the third rep         *)
(* completes the workout and _update_rep_patterns writes the row.           *)

\* workouts the device completes
MaxLearned == 3

\* the durations of the candidates offered, around the limits of 0.8 s,
\* 1.0 s, 8.0 s and 12.0 s
OfferedDurations == {7, 8, 10, 80, 120, 121}

\* the three durations of a workout, shortest first
OfferedWorkouts ==
    {d \in OfferedDurations \X OfferedDurations \X OfferedDurations :
        d[1] <= d[2] /\ d[2] <= d[3]}

\* the validator of the engine start_workout builds for the device
LoadedValidator ==
    LoadPatterns(RepDetectionEngine(TestDevice, "bicep_curl", now),
                 rep_patterns).timing_validator

\* a workout whose three candidates of the given durations were accepted,
\* at the step in which the third completes it
LearnWorkout(durations) ==
    LET id == Len(sessions) + 1
        m == [World EXCEPT
                 !.sessions =
                     Append(@, [WorkoutSession(TestDevice, "bicep_curl", 1, 3)
                                    EXCEPT !.current_reps = 3,
                                           !.status = "completed"]),
                 !.session_stats =
                     DictSet(@, id, [SessionStats EXCEPT
                                        !.total_reps = 3,
                                        !.sets_completed = 1,
                                        !.rep_durations = durations])]
    IN  /\ Len(sessions) < MaxLearned
        /\ \A i \in 1..3 :
              ValidateRepTiming(LoadedValidator,
                                RepCandidate(0, durations[i],
                                             DefaultMotionQuality))
        /\ Becomes(UpdateRepPatterns(m, id, now))
        /\ last' = [op |-> "update_rep_patterns", durations |-> durations]
        /\ UNCHANGED <<infVars, wsVars, now, readings, histVars>>

NextLearn == \E durations \in OfferedWorkouts : LearnWorkout(durations)

SpecLearn == Init /\ [][NextLearn]_vars

\* C35: every row the coordinator wrote has 0.8 s <= min <= avg <= max <=
\* 12 s, and the interval [max(0.7 x min, 0.8 s), min(1.5 x max, 12 s)] a
\* validator derives from it is not empty.
C35_PatternWithinLimits ==
    \A k \in DOMAIN rep_patterns :
        rep_patterns[k] # NoPattern =>
            LET p == rep_patterns[k]
            IN  /\ 8 <= p.min_rep_duration
                /\ p.min_rep_duration * p.avg_rep_duration[2]
                       <= p.avg_rep_duration[1]
                /\ p.avg_rep_duration[1]
                       <= p.max_rep_duration * p.avg_rep_duration[2]
                /\ p.max_rep_duration <= 120
                /\ Max(7 * p.min_rep_duration, 80)
                       <= Min(15 * p.max_rep_duration, 1200)

\* after three workouts the row has reached both limits: min 0.8 s and
\* max 12 s
C35_Witness ==
    /\ Len(sessions) = 3
    /\ rep_patterns[PatternKey] # NoPattern
    /\ rep_patterns[PatternKey].min_rep_duration = 8
    /\ rep_patterns[PatternKey].max_rep_duration = 120
    /\ rep_patterns[PatternKey].training_session_count = 3

-----------------------------------------------------------------------------
(* The quality of the candidates a workout is fed.  The state machine of    *)
(* the device's engine is handed every motion phase and every confidence    *)
(* data the analyzer and the tracker can return, and an accepted candidate  *)
(* is handled by the coordinator for a workout of 2 sets of 2 reps.        *)

\* calls made in one run
MaxSignalCalls == 5

\* process_rep_detection from step 3 of process_sensor_data on, with the
\* phase the analyzer returned and the data the tracker returned
ProcessSignals(device_id, motion_phase, ml_confidence_data) ==
    LET id == active_workouts[device_id]
        e == rep_engines[device_id]
        upd == RsmUpdate(e.rep_state_machine, motion_phase,
                         ml_confidence_data, now)
        accepted == /\ upd.candidate # NoCandidate
                    /\ ValidateRepTiming(e.timing_validator, upd.candidate)
        m == [World EXCEPT !.rep_engines[device_id] =
                 [e EXCEPT !.rep_state_machine = upd.rsm,
                           !.timing_validator =
                               ValidatorAfter(@, upd.candidate)]]
    IN  /\ Tracked(device_id)
        /\ id \in DOMAIN session_stats
        /\ gen.calls < MaxSignalCalls
        /\ gen' = [gen EXCEPT !.calls = @ + 1]
        /\ IF accepted
           THEN Becomes(HandleRepDetected(m, id, upd.candidate, now))
           ELSE Becomes(m)
        /\ last' = [op |-> "process_signals",
                    device_id |-> device_id,
                    workout_id |-> id,
                    candidate |-> upd.candidate,
                    accepted |-> accepted]
        /\ UNCHANGED <<infVars, wsVars, now, readings, phase_trace, fired>>

NextQuality ==
    \/ Tick
    \/ /\ sessions = <<>>
       /\ StartWorkout(TestDevice, "bicep_curl", 2, 2)
    \/ \E motion_phase \in MotionPhases, ml \in ConfidenceData :
          /\ sessions # <<>>
          /\ ProcessSignals(TestDevice, motion_phase, ml)

SpecQuality == Init /\ [][NextQuality]_vars

\* C36: every candidate the state machine builds has a motion quality of at
\* least 0.8; no session counts a form warning and no form warning is pushed.
C36_QualityNeverWarns ==
    /\ (last.op = "process_signals" /\ last.candidate # NoCandidate) =>
           last.candidate.motion_quality >= DefaultMotionQuality
    /\ \A id \in DOMAIN session_stats : session_stats[id].form_warnings = 0
    /\ FormWarnings(sink) = <<>>

\* a rep built on a confidence cycle of average 0.5 was accepted: its quality
\* is 0.8 and the session counts the rep without a warning
C36_Witness ==
    /\ last.op = "process_signals"
    /\ last.accepted
    /\ last.candidate.ml_complete
    /\ ~last.candidate.motion_complete
    /\ last.candidate.confidence = 1000
    /\ last.candidate.motion_quality = DefaultMotionQuality
    /\ session_stats[last.workout_id].total_reps = 2

-----------------------------------------------------------------------------
(* load_active_model as a whole, with what it may find: no active row, an  *)
(* active row whose file is gone, one whose file cannot be unpickled, and   *)
(* one whose file holds the package train_and_save wrote for it.            *)

\* the rows the query of load_active_model may return
ActiveRows == {NoModel} \cup {MLModel(a) : a \in Artifacts}

\* what is found at model_file_path
ModelFiles == {"missing", "unreadable", "package"}

\* a faulty variant: the row is kept before its file is read
LoadOutcome_RowKeptFirst(inf, db_model, file) ==
    IF db_model = NoModel
    THEN [engine |-> inf, returned |-> FALSE]
    ELSE IF file # "package"
    THEN [engine |-> [inf EXCEPT !.active_model = db_model],
          returned |-> FALSE]
    ELSE [engine |-> LoadedEngine(inf, db_model.version), returned |-> TRUE]

\* load_active_model(db, model_name): the engine afterwards and the value
\* returned.  A missing row and a missing file return False; pickle.load
\* raises on an unreadable file before anything is assigned, and the
\* handler returns False; otherwise the three attributes are assigned.
LoadOutcome(inf, db_model, file) ==
    IF db_model = NoModel
    THEN [engine |-> inf, returned |-> FALSE]
    ELSE IF file = "missing"
    THEN [engine |-> inf, returned |-> FALSE]
    ELSE IF file = "unreadable"
    THEN [engine |-> inf, returned |-> FALSE]
    ELSE [engine |-> LoadedEngine(inf, db_model.version), returned |-> TRUE]

LoadActiveModelCall(db_model, file) ==
    LET outcome == LoadOutcome(inference_engine, db_model, file)
    IN  /\ gen.loads < MaxLoads
        /\ gen' = [gen EXCEPT !.loads = @ + 1]
        /\ inference_engine' = outcome.engine
        /\ last' = [op |-> "load_active_model",
                    db_model |-> db_model,
                    file |-> file,
                    returned |-> outcome.returned]
        /\ UNCHANGED <<wsVars, threads, now, dbVars, mgrVars, sink,
                       phase_trace, fired>>

NextLoad ==
    \E db_model \in ActiveRows, file \in ModelFiles :
        LoadActiveModelCall(db_model, file)

SpecLoad == InitModelLoad /\ [][NextLoad]_vars

\* the package, the row and the feature extractor of the engine
ActiveArtifact(inf) ==
    <<inf.model_package, inf.active_model, inf.feature_extractor>>

-----------------------------------------------------------------------------
(* A workout of 2 sets of 2 reps that is fed and may be ended by hand at    *)
(* any moment, with up to three reps accepted by then.                      *)

NextEnd ==
    \/ Tick
    \/ /\ sessions = <<>>
       /\ StartWorkout(TestDevice, "bicep_curl", 2, 2)
    \/ \E ml \in MlPredictions :
          /\ sessions # <<>>
          /\ ProcessRepDetectionCall(TestDevice, ml)
    \/ EndWorkout(TestDevice)

SpecEnd == Init /\ [][NextEnd]_vars

\* a step in which end_workout ends the active session of a device
EndStep == last'.op = "end_workout" /\ sessions' # sessions

-----------------------------------------------------------------------------
(* The set number a set-completed notification reports *)

\* C39: a set-completed notification pushed in a step reports the set the
\* step completed: its set_number is that of the set_completed row the step
\* recorded, and it is k for the k-th completed set of the workout.
C39_SetNumberReported ==
    [][\A i \in (Len(sink) + 1)..Len(sink') :
          sink'[i].type = "set_completed" =>
              /\ Len(rep_events') > Len(rep_events)
              /\ rep_events'[Len(rep_events')].event_type = "set_completed"
              /\ sink'[i].set_number =
                     rep_events'[Len(rep_events')].set_number
              /\ sink'[i].set_number = sink'[i].sets_completed]_vars

====
